---- MODULE Spec2Model ----
(***************************************************************************)
(* Fluorescence-signal extraction pipeline of                              *)
(* src/preprocessing/dFoF_extraction.py: the brightness filter             *)
(* (filter_dim_rois), the sliding-percentile baseline with its stability   *)
(* test (compute_percentile_baseline), the normalisation (compute_dff) and *)
(* the pipeline that composes them and reconciles the ROI indices          *)
(* (process_suite2p_fluorescence).                                         *)
(*                                                                         *)
(* Numbers.  The code computes in IEEE floating point.  Here a number is   *)
(* a triple <<n, d, e>> standing for (n / d) * 2^e, exact, with n / d in   *)
(* lowest terms and d > 0; zero is <<0, 1, 0>>.  d = 0 encodes the         *)
(* non-finite values: <<0,0,0>> is NaN, <<1,0,0>> is +Inf and <<-1,0,0>>   *)
(* is -Inf.  The exponent lets the machine epsilon 2^-52 be written        *)
(* without leaving TLC's 32-bit integers: it is 0 for every number but     *)
(* the epsilon and the quotients by it, so that equal numbers are equal    *)
(* triples.  Rounding of the floating-point operations is not modelled:    *)
(* every operation is exact, except in the binary64 section, which models  *)
(* the rounding of the additions and divisions of filter_dim_rois.         *)
(*                                                                         *)
(* The later sections model the correction of negative pixel values of     *)
(* src/preprocessing/preprocessing_tiff.py, the execution of a copy plan   *)
(* of src/old2new_migration_no_docstrings.py and the plane loop of         *)
(* src/preprocessing/motion_segmentation_suite2p.py.                       *)
(***************************************************************************)
EXTENDS Integers, Sequences, FiniteSets, TLC

VARIABLES
    pc,                 \* position: of the pipeline run, or of a single call
    args,               \* arguments of a single call of one of the functions
    ret,                \* what that call returned
    F_npy,              \* <fish>_F.npy of the plane, transposed: T x N_raw
    iscell_npy,         \* first column of <fish>_iscell.npy as booleans
    params,             \* fps, tau, percentile, instability_ratio, min_window_s, window_tau_multiplier
    fluorescence_trace, \* local of process_suite2p_fluorescence (after line 115)
    filtered_trace,     \* local (line 119)
    bright_rois_mask,   \* local (line 119)
    F0_baseline,        \* local (line 123)
    stable_rois_mask,   \* local (line 127)
    deltaF_F,           \* local (line 132), returned
    final_indices,      \* local (line 138), returned
    exc,                \* the exception that ended the run, "" if none
    files,              \* per plane folder (plane0, plane1, ...): which of <fish>_F.npy and <fish>_iscell.npy exist
    plane,              \* the plane folder of the run: i of line 162, s2p_folder of line 95
    loads,              \* the files the run has called np.load on, in order
    driver,             \* position of the batch driver (lines 157-209), "" when the function is called directly
    out,                \* the output files written by the driver, as <<plane, name, content>>
    suspended,          \* the frame of a second invocation, <<>> if there is none
    locals,             \* the locals of a running function of the other two scripts
    disk                \* the files and folders those scripts write

vars == <<pc, args, ret, F_npy, iscell_npy, params, fluorescence_trace,
          filtered_trace, bright_rois_mask, F0_baseline, stable_rois_mask,
          deltaF_F, final_indices, exc, files, plane, loads, driver, out,
          suspended, locals, disk>>

\* Not touched by dFoF_extraction.py.
otherVars == <<locals, disk>>

callerVars == <<files, plane, driver, out, suspended, otherVars>>

pipeVars == <<F_npy, iscell_npy, params, fluorescence_trace,
              filtered_trace, bright_rois_mask, F0_baseline, stable_rois_mask,
              deltaF_F, final_indices, exc, loads, callerVars>>

----------------------------------------------------------------------------
(* Exact arithmetic on <<n, d, e>>.                                        *)

Abs(i) == IF i < 0 THEN -i ELSE i

Sign(i) == IF i < 0 THEN -1 ELSE IF i > 0 THEN 1 ELSE 0

RECURSIVE GCD(_, _)
GCD(a, b) == IF b = 0 THEN a ELSE GCD(b, a % b)

RECURSIVE Pow2(_)
Pow2(k) == IF k <= 0 THEN 1 ELSE 2 * Pow2(k - 1)

NaN == <<0, 0, 0>>

PosInf == <<1, 0, 0>>

NegInf == <<-1, 0, 0>>

Zero == <<0, 1, 0>>

\* The normal form of (n / d) * 2^e, d >= 0.
Norm(n, d, e) ==
    IF d = 0 THEN <<Sign(n), 0, 0>>
    ELSE IF n = 0 THEN Zero
    ELSE IF d = 1 THEN <<n, 1, e>>
    ELSE LET g == GCD(Abs(n), d)
         IN  <<Sign(n) * (Abs(n) \div g), d \div g, e>>

\* The integer i, and the fraction n / d.
R(i) == Norm(i, 1, 0)

Q(n, d) == Norm(n, d, 0)

IsNaN(x) == x[2] = 0 /\ x[1] = 0

IsFinite(x) == x[2] # 0

RNeg(x) == <<-x[1], x[2], x[3]>>

RAdd(x, y) ==
    IF IsNaN(x) \/ IsNaN(y) THEN NaN
    ELSE IF ~IsFinite(x) /\ ~IsFinite(y) THEN (IF x = y THEN x ELSE NaN)
    ELSE IF ~IsFinite(x) THEN x
    ELSE IF ~IsFinite(y) THEN y
    ELSE IF x[1] = 0 THEN y
    ELSE IF y[1] = 0 THEN x
    ELSE IF x[3] = y[3] THEN Norm(x[1] * y[2] + y[1] * x[2], x[2] * y[2], x[3])
    ELSE LET e == IF x[3] < y[3] THEN x[3] ELSE y[3]
         IN  Norm(x[1] * Pow2(x[3] - e) * y[2] + y[1] * Pow2(y[3] - e) * x[2],
                  x[2] * y[2], e)

RSub(x, y) == RAdd(x, RNeg(y))

RMul(x, y) ==
    IF IsNaN(x) \/ IsNaN(y) THEN NaN
    ELSE IF ~IsFinite(x) \/ ~IsFinite(y)
         THEN (IF x[1] = 0 \/ y[1] = 0 THEN NaN ELSE <<Sign(x[1]) * Sign(y[1]), 0, 0>>)
    ELSE Norm(x[1] * y[1], x[2] * y[2], x[3] + y[3])

\* IEEE division: x / 0 is an infinity, or NaN when x is 0 too.
RDiv(x, y) ==
    IF IsNaN(x) \/ IsNaN(y) THEN NaN
    ELSE IF ~IsFinite(x) THEN (IF ~IsFinite(y) THEN NaN
                               ELSE <<x[1] * (IF y[1] < 0 THEN -1 ELSE 1), 0, 0>>)
    ELSE IF ~IsFinite(y) THEN Zero
    ELSE IF y[1] = 0 THEN <<Sign(x[1]), 0, 0>>
    ELSE Norm(x[1] * y[2] * Sign(y[1]), x[2] * Abs(y[1]), x[3] - y[3])

\* x < y; false when either is NaN, as every IEEE comparison with NaN is.
RLess(x, y) ==
    IF IsNaN(x) \/ IsNaN(y) THEN FALSE
    ELSE IF x = y THEN FALSE
    ELSE IF ~IsFinite(x) THEN x[1] < 0
    ELSE IF ~IsFinite(y) THEN y[1] > 0
    ELSE IF Sign(x[1]) # Sign(y[1]) THEN x[1] < y[1]
    ELSE RSub(x, y)[1] < 0

RGeq(x, y) == ~IsNaN(x) /\ ~IsNaN(y) /\ ~RLess(x, y)

RECURSIVE RSum(_)
RSum(s) ==
    IF Len(s) = 0 THEN Zero
    ELSE IF Len(s) = 1 THEN s[1]
    ELSE LET h == Len(s) \div 2
         IN  RAdd(RSum(SubSeq(s, 1, h)), RSum(SubSeq(s, h + 1, Len(s))))

----------------------------------------------------------------------------
(* Arrays.  A matrix of shape (T, N) is a record [T |-> T, cols |-> c]     *)
(* with c the sequence of its N columns, each a sequence of T numbers;     *)
(* keeping T apart lets the shape (T, 0) be told from (T', 0).  Indices    *)
(* are 1-based here and 0-based in the code; ROI indices that the code     *)
(* returns (final_indices) are kept 0-based.                               *)

Matrix(T, c) == [T |-> T, cols |-> c]

NCols(M) == Len(M.cols)

\* An array holds values: the sequence a with every entry evaluated once,
\* not once at each place it is read.
Array(a) == SubSeq(a, 1, Len(a))

\* a[mask] for a boolean mask of a's length: the entries at the true
\* positions, in order (NumPy boolean indexing).
RECURSIVE Compress(_, _)
Compress(a, mask) ==
    IF a = <<>> \/ mask = <<>> THEN <<>>
    ELSE IF Head(mask) THEN <<Head(a)>> \o Compress(Tail(a), Tail(mask))
    ELSE Compress(Tail(a), Tail(mask))

\* Variant of SelectCols that loses the frame count when no column is
\* selected.
SelectColsFlat(M, mask) ==
    IF \A i \in 1..Len(mask) : ~mask[i] THEN Matrix(0, <<>>)
    ELSE Matrix(M.T, Compress(M.cols, mask))

\* M[:, mask]
SelectCols(M, mask) == Matrix(M.T, Compress(M.cols, mask))

\* np.where(mask)[0]: the 0-based positions of the true entries, increasing.
Where(mask) == Compress([i \in 1..Len(mask) |-> i - 1], mask)

\* np.mean of a vector; of an empty one it is 0/0 = NaN.
Mean(v) == RDiv(RSum(v), R(Len(v)))

\* Variant of Variance with the sample correction (ddof = 1).
VarianceSample(v) ==
    LET mu == Mean(v)
    IN  RDiv(RSum([i \in 1..Len(v) |-> RMul(RSub(v[i], mu), RSub(v[i], mu))]),
             R(Len(v) - 1))

\* np.std of a vector, squared: the mean of the squared deviations from
\* the mean, divided by the number of entries (ddof = 0).
Variance(v) ==
    LET mu == Mean(v)
    IN  Mean([i \in 1..Len(v) |-> RMul(RSub(v[i], mu), RSub(v[i], mu))])

\* Variant of GeqMuMinusKSigma with a strict comparison,
\* m > mu - k * sigma, for k >= 0.
GreaterMuMinusKSigma(m, mu, k, variance) ==
    LET dev  == RSub(m, mu)
        dev2 == RMul(dev, dev)
        k2v  == RMul(RMul(k, k), variance)
    IN  IF IsNaN(dev) \/ IsNaN(k2v) THEN FALSE
        ELSE IF RGeq(dev, Zero) THEN RLess(Zero, dev) \/ RLess(Zero, k2v)
        ELSE RLess(dev2, k2v)

\* Variant of GeqMuMinusKSigma that cuts at both ends,
\* |m - mu| <= k * sigma, for k >= 0.
WithinKSigma(m, mu, k, variance) ==
    LET dev  == RSub(m, mu)
        dev2 == RMul(dev, dev)
        k2v  == RMul(RMul(k, k), variance)
    IN  IF IsNaN(dev) \/ IsNaN(k2v) THEN FALSE
        ELSE RGeq(k2v, dev2)

\* m >= mu - k * sigma with sigma = sqrt(variance), decided without the
\* square root: with dev = m - mu, for k >= 0 it is dev >= 0 or
\* dev^2 <= k^2 * variance, and for k < 0 it is dev >= 0 and
\* dev^2 >= k^2 * variance.  False when any operand is NaN.
GeqMuMinusKSigma(m, mu, k, variance) ==
    LET dev  == RSub(m, mu)
        dev2 == RMul(dev, dev)
        k2v  == RMul(RMul(k, k), variance)
    IN  IF IsNaN(dev) \/ IsNaN(k2v) THEN FALSE
        ELSE IF RGeq(k, Zero) THEN RGeq(dev, Zero) \/ RGeq(k2v, dev2)
        ELSE RGeq(dev, Zero) /\ RGeq(dev2, k2v)

RECURSIVE RMinOf(_)
RMinOf(s) ==
    IF Len(s) = 1 THEN s[1]
    ELSE LET r == RMinOf(Tail(s)) IN IF RLess(r, Head(s)) THEN r ELSE Head(s)

RECURSIVE RMaxOf(_)
RMaxOf(s) ==
    IF Len(s) = 1 THEN s[1]
    ELSE LET r == RMaxOf(Tail(s)) IN IF RLess(Head(s), r) THEN r ELSE Head(s)

\* Python's max(a, b) of two numbers: a unless b is greater.
PyMax(a, b) == IF RLess(a, b) THEN b ELSE a

\* Variant of PyInt that rounds to the nearest integer, halves up.
PyRound(x) ==
    LET num == Abs(x[1]) * Pow2(x[3])
        den == x[2] * Pow2(-x[3])
    IN  Sign(x[1]) * ((2 * num + den) \div (2 * den))

\* Python's int(x) of a finite float: truncation toward zero.
PyInt(x) ==
    LET num == Abs(x[1]) * Pow2(x[3])
        den == x[2] * Pow2(-x[3])
    IN  Sign(x[1]) * (num \div den)

RECURSIVE Insert(_, _)
Insert(x, s) ==
    IF s = <<>> THEN <<x>>
    ELSE IF RLess(Head(s), x) THEN <<Head(s)>> \o Insert(x, Tail(s))
    ELSE <<x>> \o s

RECURSIVE SortAsc(_)
SortAsc(s) == IF s = <<>> THEN <<>> ELSE Insert(Head(s), SortAsc(Tail(s)))

----------------------------------------------------------------------------
(* filter_dim_rois, lines 20-35.                                           *)

\* Variant of filter_dim_rois_std that returns the mask with the matrix
\* as it was passed in.
filter_dim_rois_unfiltered(fluorescence_trace_, threshold_std) ==
    LET N         == NCols(fluorescence_trace_)
        mean_fluo == Array([i \in 1..N |-> Mean(fluorescence_trace_.cols[i])])
        mask      == [i \in 1..N |->
                        GeqMuMinusKSigma(mean_fluo[i], Mean(mean_fluo), threshold_std,
                                         Variance(mean_fluo))]
    IN  [filtered |-> fluorescence_trace_, mask |-> mask]

\* Lines 32-35, for a given threshold_std.
filter_dim_rois_std(fluorescence_trace_, threshold_std) ==
    LET N         == NCols(fluorescence_trace_)
        mean_fluo == Array([i \in 1..N |-> Mean(fluorescence_trace_.cols[i])])
        mu        == Mean(mean_fluo)
        variance  == Variance(mean_fluo)
        mask      == [i \in 1..N |->
                        GeqMuMinusKSigma(mean_fluo[i], mu, threshold_std, variance)]
    IN  [filtered |-> SelectCols(fluorescence_trace_, mask), mask |-> mask]

\* The default of the parameter threshold_std (line 20).
DefaultThresholdStd == R(2)

filter_dim_rois(fluorescence_trace_) ==
    filter_dim_rois_std(fluorescence_trace_, DefaultThresholdStd)

----------------------------------------------------------------------------
(* compute_percentile_baseline, lines 37-78.                               *)

\* Variant of Percentile that does not sort: it takes the entries around
\* the rank in the order of the window.
PercentileUnsorted(a, q) ==
    LET n      == Len(a)
        lo     == (q * (n - 1)) \div 100
        gamma  == Q((q * (n - 1)) % 100, 100)
        prev   == a[lo + 1]
        next   == a[IF lo + 2 > n THEN n ELSE lo + 2]
    IN  RAdd(prev, RMul(gamma, RSub(next, prev)))

\* np.percentile(a, q) of a non-empty vector of finite values, NumPy's
\* default method ("linear"): the vector is sorted, the rank is
\* q / 100 * (n - 1) counted from 0, and the result interpolates linearly
\* between the two order statistics around the rank.
Percentile(a, q) ==
    LET n      == Len(a)
        sorted == SortAsc(a)
        lo     == (q * (n - 1)) \div 100
        gamma  == Q((q * (n - 1)) % 100, 100)
        prev   == sorted[lo + 1]
        next   == sorted[IF lo + 2 > n THEN n ELSE lo + 2]
    IN  RAdd(prev, RMul(gamma, RSub(next, prev)))

\* Lines 56-57.
WindowFrames(fps, tau, min_window_s, window_tau_multiplier) ==
    LET window_s == PyMax(min_window_s, RMul(window_tau_multiplier, tau))
    IN  PyInt(RMul(window_s, fps))

\* Variant of WindowStart: a window that starts at the frame itself.
WindowStartCausal(t, window_frames) == t

\* Variant of WindowEnd: a window that runs to the end of the trace.
WindowEndOpen(t, T, window_frames) == T

\* Lines 67-68, for the 0-based frame t: the slice trace[start:end].
WindowStart(t, window_frames) == IF t - window_frames > 0 THEN t - window_frames ELSE 0

WindowEnd(t, T, window_frames) ==
    IF t + window_frames + 1 < T THEN t + window_frames + 1 ELSE T

\* trace[start:end] for 0 <= start and 0 <= end <= len(trace): the entries
\* of 0-based index start .. end - 1, none when start >= end.
PySlice(trace, start, end) == SubSeq(trace, start + 1, end)

\* Lines 63-69: the local baseline of one trace.
LocalBaseline(trace, window_frames, percentile) ==
    LET T == Len(trace)
    IN  Array([t1 \in 1..T |->
                  Percentile(PySlice(trace, WindowStart(t1 - 1, window_frames),
                                     WindowEnd(t1 - 1, T, window_frames)),
                             percentile)])

\* Variant of Unstable with minimum and maximum exchanged.
UnstableSwapped(local_baseline, instability_ratio) ==
    RLess(RMaxOf(local_baseline), RMul(instability_ratio, RMinOf(local_baseline)))

\* Line 72: the stability check of a local baseline.
Unstable(local_baseline, instability_ratio) ==
    RLess(RMinOf(local_baseline), RMul(instability_ratio, RMaxOf(local_baseline)))

\* scipy.ndimage.uniform_filter1d(input, size) for size >= 1, with its
\* defaults mode = "reflect" and origin = 0: entry i (0-based) is the mean
\* of the size entries i - size // 2 .. i - size // 2 + size - 1 of the
\* input extended by reflection about its edges (d c b a | a b c d | d c b a).
Reflect(j, T) ==
    LET m == ((j % (2 * T)) + 2 * T) % (2 * T)
    IN  IF m < T THEN m ELSE 2 * T - 1 - m

uniform_filter1d(input, size) ==
    LET T == Len(input)
    IN  Array([i1 \in 1..T |->
                  RDiv(RSum([k \in 1..size |->
                                input[Reflect((i1 - 1) - (size \div 2) + (k - 1), T) + 1]]),
                       R(size))])

\* Variant of BaselineColumn that leaves zeros, not NaN, in the column of
\* an unstable ROI.
BaselineColumnZeroFilled(local_baseline, window_frames, instability_ratio) ==
    IF Unstable(local_baseline, instability_ratio)
    THEN [t1 \in 1..Len(local_baseline) |-> Zero]
    ELSE uniform_filter1d(local_baseline, window_frames)

\* Lines 61-76 for one column whose local baseline is given: the column
\* of F0_baseline, all NaN when the ROI is unstable (line 59 filled it
\* with NaN and line 73 skips it).
BaselineColumn(local_baseline, window_frames, instability_ratio) ==
    IF Unstable(local_baseline, instability_ratio)
    THEN [t1 \in 1..Len(local_baseline) |-> NaN]
    ELSE uniform_filter1d(local_baseline, window_frames)

\* Variant of compute_percentile_baseline in which the check of line 72
\* ends the loop over the ROIs: the columns after the first unstable one
\* stay NaN as well.
compute_percentile_baseline_break(M, fps, tau, percentile, instability_ratio, min_window_s, window_tau_multiplier) ==
    LET window_frames  == WindowFrames(fps, tau, min_window_s, window_tau_multiplier)
        local_baseline == Array([n \in 1..NCols(M) |->
                                   LocalBaseline(M.cols[n], window_frames, percentile)])
        unstable       == [n \in 1..NCols(M) |->
                             Unstable(local_baseline[n], instability_ratio)]
        reached        == [n \in 1..NCols(M) |-> \A m \in 1..(n - 1) : ~unstable[m]]
        raised         == /\ window_frames < 1
                          /\ \E n \in 1..NCols(M) : reached[n] /\ ~unstable[n]
    IN  [window_frames  |-> window_frames,
         window         |-> [t1 \in 1..M.T |->
                                <<WindowStart(t1 - 1, window_frames),
                                  WindowEnd(t1 - 1, M.T, window_frames)>>],
         local_baseline |-> local_baseline,
         unstable       |-> unstable,
         raised         |-> raised,
         F0_baseline    |->
            IF raised THEN Matrix(M.T, <<>>)
            ELSE Matrix(M.T, [n \in 1..NCols(M) |->
                                 IF reached[n]
                                 THEN BaselineColumn(local_baseline[n], window_frames,
                                                     instability_ratio)
                                 ELSE [t1 \in 1..M.T |-> NaN]])]

\* The whole function: its locals window_frames, start and end of every
\* frame (window), local_baseline of every column and the outcome of the
\* check of line 72 on it (unstable), whether the call raised, and the
\* matrix it returned if not.
\* uniform_filter1d raises RuntimeError('incorrect filter size') when
\* size < 1, and line 76 calls it for every ROI that passed the check of
\* line 72.
compute_percentile_baseline(M, fps, tau, percentile, instability_ratio, min_window_s, window_tau_multiplier) ==
    LET window_frames  == WindowFrames(fps, tau, min_window_s, window_tau_multiplier)
        local_baseline == Array([n \in 1..NCols(M) |->
                                   LocalBaseline(M.cols[n], window_frames, percentile)])
        raised         == /\ window_frames < 1
                          /\ \E n \in 1..NCols(M) :
                                ~Unstable(local_baseline[n], instability_ratio)
    IN  [window_frames  |-> window_frames,
         window         |-> [t1 \in 1..M.T |->
                                <<WindowStart(t1 - 1, window_frames),
                                  WindowEnd(t1 - 1, M.T, window_frames)>>],
         local_baseline |-> local_baseline,
         unstable       |-> [n \in 1..NCols(M) |->
                                Unstable(local_baseline[n], instability_ratio)],
         raised         |-> raised,
         F0_baseline    |->
            IF raised THEN Matrix(M.T, <<>>)
            ELSE Matrix(M.T, [n \in 1..NCols(M) |->
                                 BaselineColumn(local_baseline[n], window_frames,
                                                instability_ratio)])]

----------------------------------------------------------------------------
(* compute_dff, lines 80-92.                                               *)

\* np.finfo(float).eps = 2^-52
Eps == <<1, 1, -52>>

\* Variant of baseline_safe without the patch of a zero baseline.
BaselineUnpatched(F0) == F0

\* Line 91, one entry: np.where(F0_baseline == 0, eps, F0_baseline).
baseline_safe(F0) == IF F0 = Zero THEN Eps ELSE F0

\* Variant of DffEntry that regularises every baseline near zero.
DffEntryRegularised(F, F0) ==
    LET near_zero == RLess(Q(-1, 10), F0) /\ RLess(F0, Q(1, 10))
    IN  RDiv(RSub(F, F0), IF near_zero THEN Eps ELSE F0)

\* Line 92, one entry.
DffEntry(F, F0) == RDiv(RSub(F, F0), baseline_safe(F0))

compute_dff(fluorescence_trace_, F0_baseline_) ==
    Matrix(fluorescence_trace_.T,
           [n \in 1..NCols(fluorescence_trace_) |->
               [t1 \in 1..fluorescence_trace_.T |->
                   DffEntry(fluorescence_trace_.cols[n][t1],
                            F0_baseline_.cols[n][t1])]])

----------------------------------------------------------------------------
(* process_suite2p_fluorescence, lines 95-140, one action per statement    *)
(* group.  pc is "start" before the call and "done" after line 140;        *)
(* "raised" when an exception ended the call.                              *)

\* Line 127: ~np.isnan(F0_baseline).all(axis=0)
StableMask(F0) ==
    [n \in 1..NCols(F0) |-> ~(\A t1 \in 1..F0.T : IsNaN(F0.cols[n][t1]))]

\* Variant of ReconcileIndices that leaves out the brightness mask.
ReconcileIndicesNoBright(iscell_mask_, bright_mask, stable_mask) ==
    Compress(Where(iscell_mask_), stable_mask)

\* Variant of ReconcileIndices that returns the positions of the retained
\* ROIs in the matrix passed to the baseline estimation.
ReconcileIndicesCompacted(iscell_mask_, bright_mask, stable_mask) == Where(stable_mask)

\* Lines 136-138.
ReconcileIndices(iscell_mask_, bright_mask, stable_mask) ==
    LET original_indices == Where(iscell_mask_)
        retained_indices == Compress(original_indices, bright_mask)
    IN  Compress(retained_indices, stable_mask)

\* A plane folder that holds both input files.
Present == [F |-> TRUE, iscell |-> TRUE]

\* Variant of Missing that looks for the fluorescence file only.
MissingFOnly(folder) == IF ~folder.F THEN "F" ELSE ""

\* Lines 111-112: np.load raises FileNotFoundError for a file that does
\* not exist; the fluorescence file is loaded first.  The file on which
\* the run fails, "" if both exist.
Missing(folder) ==
    IF ~folder.F THEN "F" ELSE IF ~folder.iscell THEN "iscell" ELSE ""

\* Variant of IndexMismatch: only a true entry beyond the last column is
\* an error.
IndexOutOfBounds(M, mask) == \E i \in 1..Len(mask) : i > NCols(M) /\ mask[i]

\* Line 115: indexing the columns with a boolean mask of another length
\* raises IndexError.
IndexMismatch(M, mask) == Len(mask) # NCols(M)

\* Lines 111-112: both files are loaded, the fluorescence one transposed.
\* Neither FileNotFoundError is caught.
Load ==
    /\ pc = "start"
    /\ LET missing == Missing(files[plane + 1])
       IN  /\ loads' = IF missing = "F" THEN loads \o <<"F">>
                        ELSE loads \o <<"F", "iscell">>
           /\ fluorescence_trace' = IF missing = "F" THEN fluorescence_trace ELSE F_npy
           /\ IF missing = ""
              THEN /\ pc' = "loaded"
                   /\ UNCHANGED exc
              ELSE /\ pc' = "raised"
                   /\ exc' = "FileNotFoundError"
    /\ UNCHANGED <<args, ret, callerVars, F_npy, iscell_npy, params, filtered_trace,
                   bright_rois_mask, F0_baseline, stable_rois_mask, deltaF_F,
                   final_indices>>

\* Line 115: keep only the ROIs classified as cells.  The IndexError is
\* not caught.
MaskCells ==
    /\ pc = "loaded"
    /\ IF IndexMismatch(fluorescence_trace, iscell_npy)
       THEN /\ pc' = "raised"
            /\ exc' = "IndexError"
            /\ UNCHANGED fluorescence_trace
       ELSE /\ pc' = "masked"
            /\ fluorescence_trace' = SelectCols(fluorescence_trace, iscell_npy)
            /\ UNCHANGED exc
    /\ UNCHANGED <<args, ret, callerVars, loads, F_npy, iscell_npy, params, filtered_trace,
                   bright_rois_mask, F0_baseline, stable_rois_mask, deltaF_F,
                   final_indices>>

\* Line 119: the brightness filter, with its default threshold.
FilterDim ==
    /\ pc = "masked"
    /\ LET r == filter_dim_rois(fluorescence_trace)
       IN  /\ filtered_trace' = r.filtered
           /\ bright_rois_mask' = r.mask
    /\ pc' = "filtered"
    /\ UNCHANGED <<args, ret, callerVars, loads, F_npy, iscell_npy, params, fluorescence_trace,
                   F0_baseline, stable_rois_mask, deltaF_F, final_indices, exc>>

\* Lines 123-124: the baseline; the RuntimeError of uniform_filter1d is not
\* caught and ends the call.
Baseline ==
    /\ pc = "filtered"
    /\ LET r == compute_percentile_baseline(filtered_trace, params.fps,
                    params.tau, params.percentile, params.instability_ratio,
                    params.min_window_s, params.window_tau_multiplier)
       IN  IF r.raised
           THEN /\ pc' = "raised"
                /\ exc' = "RuntimeError"
                /\ UNCHANGED F0_baseline
           ELSE /\ pc' = "baselined"
                /\ F0_baseline' = r.F0_baseline
                /\ UNCHANGED exc
    /\ UNCHANGED <<args, ret, callerVars, loads, F_npy, iscell_npy, params, fluorescence_trace,
                   filtered_trace, bright_rois_mask, stable_rois_mask, deltaF_F,
                   final_indices>>

\* Line 127: the mask of the ROIs whose baseline column is not all NaN.
MaskStable ==
    /\ pc = "baselined"
    /\ stable_rois_mask' = StableMask(F0_baseline)
    /\ pc' = "stable_masked"
    /\ UNCHANGED <<args, ret, callerVars, loads, F_npy, iscell_npy, params, fluorescence_trace,
                   filtered_trace, bright_rois_mask, F0_baseline, deltaF_F,
                   final_indices, exc>>

\* Lines 130-132: compaction to the stable ROIs, then the normalisation.
Normalize ==
    /\ pc = "stable_masked"
    /\ LET clean_trace    == SelectCols(filtered_trace, stable_rois_mask)
           clean_baseline == SelectCols(F0_baseline, stable_rois_mask)
       IN  deltaF_F' = compute_dff(clean_trace, clean_baseline)
    /\ pc' = "normalized"
    /\ UNCHANGED <<args, ret, callerVars, loads, F_npy, iscell_npy, params, fluorescence_trace,
                   filtered_trace, bright_rois_mask, F0_baseline,
                   stable_rois_mask, final_indices, exc>>

\* Lines 136-140: the indices into the full Suite2p ROI list, and the return.
Reconcile ==
    /\ pc = "normalized"
    /\ final_indices' = ReconcileIndices(iscell_npy, bright_rois_mask, stable_rois_mask)
    /\ pc' = "done"
    /\ UNCHANGED <<args, ret, callerVars, loads, F_npy, iscell_npy, params, fluorescence_trace,
                   filtered_trace, bright_rois_mask, F0_baseline,
                   stable_rois_mask, deltaF_F, exc>>

----------------------------------------------------------------------------
(* The planes the pipeline is run on.  A plane has PlaneFrames frames and  *)
(* N <= MaxPlaneRois ROIs;                                                 *)
(* ROI i (1-based) is an ordinary bright cell unless it is one of at most  *)
(* MaxOdd odd ones: a non-cell, a dim cell, or a cell whose fluorescence   *)
(* collapses in the last frame.  The first frame of a trace carries the    *)
(* ROI's number, so that no two ROIs of a plane have the same trace.       *)

MaxPlaneRois == 7

MaxOdd == 2

PlaneFrames == 3

Kinds == {"cell", "noncell", "dim", "crash"}

PlaneTrace(kind, i, T) ==
    [t1 \in 1..T |->
        IF kind = "nan" THEN NaN
        ELSE IF kind = "dim" THEN R(1)
        ELSE IF t1 = 1 THEN R(10 + i)
        ELSE IF kind = "crash" /\ t1 = T THEN R(0)
        ELSE R(10)]

\* The defaults of lines 95 and 37-39, and the driver's values (lines 151-154).
Parameters(fps, tau) ==
    [fps |-> fps, tau |-> tau, percentile |-> 8, instability_ratio |-> Q(1, 10),
     min_window_s |-> R(15), window_tau_multiplier |-> R(40)]

\* Frame rate and decay constant: window_frames is 0 (0.75 truncated),
\* 1 (1.5 truncated) and 6 (the driver's tau = 6.0, line 152, at a low
\* frame rate: longer than every trace of the model).
PlaneParameters ==
    {Parameters(Q(1, 20), Q(1, 10)), Parameters(Q(1, 10), Q(1, 10)),
     Parameters(Q(1, 40), R(6))}

Idle ==
    /\ fluorescence_trace = <<>>
    /\ filtered_trace = <<>>
    /\ bright_rois_mask = <<>>
    /\ F0_baseline = <<>>
    /\ stable_rois_mask = <<>>
    /\ deltaF_F = <<>>
    /\ final_indices = <<>>
    /\ exc = ""
    /\ loads = <<>>

\* The function is called directly, once.
Direct ==
    /\ driver = ""
    /\ out = {}
    /\ suspended = <<>>
    /\ locals = <<>>
    /\ disk = <<>>

Init ==
    /\ pc = "start"
    /\ args = <<>>
    /\ ret = <<>>
    /\ \E T \in {PlaneFrames}, N \in 0..MaxPlaneRois :
          \E kind \in [1..N -> Kinds] :
             /\ Cardinality({i \in 1..N : kind[i] # "cell"}) <= MaxOdd
             /\ F_npy = Matrix(T, [i \in 1..N |-> PlaneTrace(kind[i], i, T)])
             /\ iscell_npy = [i \in 1..N |-> kind[i] # "noncell"]
    /\ params \in PlaneParameters
    /\ files = <<Present>>
    /\ plane = 0
    /\ Idle
    /\ Direct

Next ==
    \/ Load
    \/ MaskCells
    \/ FilterDim
    \/ Baseline
    \/ MaskStable
    \/ Normalize
    \/ Reconcile

Spec == Init /\ [][Next]_vars

----------------------------------------------------------------------------
(* Direct calls on a plane folder that may lack a file, or hold a          *)
(* classification mask of another length than the ROI count, or a ROI      *)
(* whose fluorescence is NaN in every frame.                               *)

MaxCallRois == 2

CallKinds == Kinds \cup {"nan"}

\* What the model holds for a file that does not exist.
NoMatrix == Matrix(0, <<>>)

InitCall ==
    /\ pc = "start"
    /\ args = <<>>
    /\ ret = <<>>
    /\ \E N \in 0..MaxCallRois, d \in {-1, 0, 1}, folder \in [F : BOOLEAN, iscell : BOOLEAN] :
          \E kind \in [1..N -> CallKinds] :
             /\ N + d >= 0
             /\ files = <<folder>>
             /\ F_npy = IF folder.F
                        THEN Matrix(PlaneFrames,
                                    [i \in 1..N |-> PlaneTrace(kind[i], i, PlaneFrames)])
                        ELSE NoMatrix
             /\ iscell_npy = IF folder.iscell
                             THEN [i \in 1..(N + d) |->
                                     IF i <= N THEN kind[i] # "noncell" ELSE TRUE]
                             ELSE <<>>
    /\ params \in PlaneParameters
    /\ plane = 0
    /\ Idle
    /\ Direct

SpecCall == InitCall /\ [][Next]_vars

----------------------------------------------------------------------------
(* The batch driver, lines 142-209, for the one fish of fish_selected.     *)
(* driver is "loop" at the test of line 165 for plane i = plane, "call"    *)
(* while process_suite2p_fluorescence runs, "saved" after line 181,        *)
(* "finished" after the last plane and "raised" when an exception ended    *)
(* the script.  An exception of the function is not caught either: the     *)
(* script ends with pc = "raised".                                         *)

\* Line 150.
n_planes == 5

\* Lines 151-154 and the defaults of line 95.
DriverParameters == Parameters(R(2), R(6))

\* The names that are bound where lines 187 and 209 are evaluated: the
\* imports, the functions of the module and the assignments of lines
\* 147-176.
DriverNames ==
    {"np", "Path", "uniform_filter1d", "time", "load_fluorescence_data",
     "filter_dim_rois", "compute_percentile_baseline", "compute_dff",
     "process_suite2p_fluorescence", "base_data_path", "fish_selected",
     "n_planes", "fps", "tau", "percentile", "instability_ratio", "fish",
     "fish_folder", "s2p_folder", "i", "plane_path", "deltaF_F",
     "final_indices", "out_dir"}

\* Evaluating a name that is not bound raises NameError.
Bound(name) == name \in DriverNames

\* The files of lines 180, 181 and 200.
OutputNames == {"dFoF.npy", "filtered_roi_indices.npy", "meta.json"}

\* Lines 184-199 without the timestamp.
Meta ==
    [plane_index |-> plane,
     params |-> [fps |-> params.fps, tau |-> params.tau,
                 percentile |-> params.percentile,
                 instability_ratio |-> params.instability_ratio],
     shapes |-> [dFoF_TxN |-> <<deltaF_F.T, NCols(deltaF_F)>>,
                 roi_indices_len |-> Len(final_indices)]]

\* The end of an iteration of line 162: the next plane, or the end.
NextPlane ==
    IF plane + 1 < n_planes
    THEN /\ plane' = plane + 1
         /\ driver' = "loop"
    ELSE /\ driver' = "finished"
         /\ UNCHANGED plane

\* Line 165, with the call of lines 166-173 when the file exists and the
\* message of line 209 when it does not.
DriverExists ==
    /\ driver = "loop"
    /\ IF files[plane + 1].F
       THEN /\ driver' = "call"
            /\ pc' = "start"
            /\ params' = DriverParameters
            /\ fluorescence_trace' = <<>>
            /\ filtered_trace' = <<>>
            /\ bright_rois_mask' = <<>>
            /\ F0_baseline' = <<>>
            /\ stable_rois_mask' = <<>>
            /\ deltaF_F' = <<>>
            /\ final_indices' = <<>>
            /\ loads' = <<>>
            /\ UNCHANGED <<plane, exc>>
       ELSE /\ IF Bound("f_path")
               THEN /\ NextPlane
                    /\ UNCHANGED exc
               ELSE /\ driver' = "raised"
                    /\ exc' = "NameError"
                    /\ UNCHANGED plane
            /\ UNCHANGED <<pc, params, fluorescence_trace, filtered_trace,
                           bright_rois_mask, F0_baseline, stable_rois_mask,
                           deltaF_F, final_indices, loads>>
    /\ UNCHANGED <<args, ret, F_npy, iscell_npy, files, out, suspended, otherVars>>

\* Lines 176-181: the output folder and the two arrays.
DriverSave ==
    /\ driver = "call"
    /\ pc = "done"
    /\ out' = out \cup {<<plane, "dFoF.npy", deltaF_F>>,
                        <<plane, "filtered_roi_indices.npy", final_indices>>}
    /\ driver' = "saved"
    /\ UNCHANGED <<pc, args, ret, F_npy, iscell_npy, params, fluorescence_trace,
                   filtered_trace, bright_rois_mask, F0_baseline, stable_rois_mask,
                   deltaF_F, final_indices, exc, files, plane, loads, suspended,
                   otherVars>>

\* Lines 184-205: the metadata record is built (line 187 evaluates
\* f_path), written, and the loop goes on.
DriverMeta ==
    /\ driver = "saved"
    /\ IF Bound("f_path")
       THEN /\ out' = out \cup {<<plane, "meta.json", Meta>>}
            /\ NextPlane
            /\ UNCHANGED exc
       ELSE /\ driver' = "raised"
            /\ exc' = "NameError"
            /\ UNCHANGED <<out, plane>>
    /\ UNCHANGED <<pc, args, ret, F_npy, iscell_npy, params, fluorescence_trace,
                   filtered_trace, bright_rois_mask, F0_baseline, stable_rois_mask,
                   deltaF_F, final_indices, files, loads, suspended, otherVars>>

MaxDriverRois == 2

\* A plane folder without input files.
Absent == [F |-> FALSE, iscell |-> FALSE]

\* Every plane folder of the fish holds both input files or none; the
\* folders that hold them hold the same plane.
InitDriver ==
    /\ driver = "loop"
    /\ plane = 0
    /\ pc = "idle"
    /\ args = <<>>
    /\ ret = <<>>
    /\ files \in [1..n_planes -> {Present, Absent}]
    /\ \E N \in 0..MaxDriverRois :
          \E kind \in [1..N -> Kinds] :
             /\ F_npy = Matrix(PlaneFrames,
                               [i \in 1..N |-> PlaneTrace(kind[i], i, PlaneFrames)])
             /\ iscell_npy = [i \in 1..N |-> kind[i] # "noncell"]
    /\ params = <<>>
    /\ out = {}
    /\ suspended = <<>>
    /\ locals = <<>>
    /\ disk = <<>>
    /\ Idle

NextDriver ==
    \/ DriverExists
    \/ DriverSave
    \/ DriverMeta
    \/ Load
    \/ MaskCells
    \/ FilterDim
    \/ Baseline
    \/ MaskStable
    \/ Normalize
    \/ Reconcile

SpecDriver == InitDriver /\ [][NextDriver]_vars

----------------------------------------------------------------------------
(* Two invocations of process_suite2p_fluorescence on two plane folders,   *)
(* their statements interleaved in any order.  The function and the        *)
(* stages it calls assign only parameters and locals (lines 20-140 hold    *)
(* no global or nonlocal statement and no module-level array), so an       *)
(* invocation is its frame; the one that is not running is in suspended.   *)

\* The frame of the running invocation: the folder it was called on with
\* the contents of its two files, its parameters, its locals and its
\* position.
Frame ==
    [pc |-> pc, args |-> args, ret |-> ret, plane |-> plane, F_npy |-> F_npy,
     iscell_npy |-> iscell_npy, params |-> params,
     fluorescence_trace |-> fluorescence_trace, filtered_trace |-> filtered_trace,
     bright_rois_mask |-> bright_rois_mask, F0_baseline |-> F0_baseline,
     stable_rois_mask |-> stable_rois_mask, deltaF_F |-> deltaF_F,
     final_indices |-> final_indices, exc |-> exc, loads |-> loads]

\* The other invocation runs on: the frames change places.
Switch ==
    /\ suspended # <<>>
    /\ suspended' = <<Frame>>
    /\ LET f == suspended[1]
       IN  /\ pc' = f.pc
           /\ args' = f.args
           /\ ret' = f.ret
           /\ plane' = f.plane
           /\ F_npy' = f.F_npy
           /\ iscell_npy' = f.iscell_npy
           /\ params' = f.params
           /\ fluorescence_trace' = f.fluorescence_trace
           /\ filtered_trace' = f.filtered_trace
           /\ bright_rois_mask' = f.bright_rois_mask
           /\ F0_baseline' = f.F0_baseline
           /\ stable_rois_mask' = f.stable_rois_mask
           /\ deltaF_F' = f.deltaF_F
           /\ final_indices' = f.final_indices
           /\ exc' = f.exc
           /\ loads' = f.loads
    /\ UNCHANGED <<files, driver, out, otherVars>>

MaxTwinRois == 2

\* The second plane: two cells, the first with a collapsing fluorescence.
TwinPlane ==
    Matrix(PlaneFrames, <<PlaneTrace("crash", MaxTwinRois + 1, PlaneFrames),
                          PlaneTrace("cell", MaxTwinRois + 2, PlaneFrames)>>)

InitTwo ==
    /\ pc = "start"
    /\ args = <<>>
    /\ ret = <<>>
    /\ \E N \in 0..MaxTwinRois :
          \E kind \in [1..N -> Kinds] :
             /\ F_npy = Matrix(PlaneFrames,
                               [i \in 1..N |-> PlaneTrace(kind[i], i, PlaneFrames)])
             /\ iscell_npy = [i \in 1..N |-> kind[i] # "noncell"]
    /\ params \in PlaneParameters
    /\ files = <<Present, Present>>
    /\ plane = 0
    /\ Idle
    /\ driver = ""
    /\ out = {}
    /\ suspended = <<[pc |-> "start", args |-> <<>>, ret |-> <<>>, plane |-> 1,
                      F_npy |-> TwinPlane, iscell_npy |-> <<TRUE, TRUE>>,
                      params |-> params, fluorescence_trace |-> <<>>,
                      filtered_trace |-> <<>>, bright_rois_mask |-> <<>>,
                      F0_baseline |-> <<>>, stable_rois_mask |-> <<>>,
                      deltaF_F |-> <<>>, final_indices |-> <<>>, exc |-> "",
                      loads |-> <<>>]>>
    /\ locals = <<>>
    /\ disk = <<>>

NextTwo ==
    \/ Load
    \/ MaskCells
    \/ FilterDim
    \/ Baseline
    \/ MaskStable
    \/ Normalize
    \/ Reconcile
    \/ Switch

SpecTwo == InitTwo /\ [][NextTwo]_vars

----------------------------------------------------------------------------
(* Single calls of the three stage functions, on arguments drawn from      *)
(* bounded sets: args holds the arguments, ret what the call returned.     *)

NoPlane ==
    /\ F_npy = <<>>
    /\ iscell_npy = <<>>
    /\ params = <<>>
    /\ files = <<>>
    /\ plane = 0
    /\ Idle
    /\ Direct

\* All matrices of shape (T, N) with entries in S.
Matrices(T, N, S) == {Matrix(T, c) : c \in [1..N -> [1..T -> S]]}

\* ---- compute_dff ----

MaxDffFrames == 3

DffShapes == {<<T, 1>> : T \in 1..MaxDffFrames} \cup {<<1, 2>>, <<2, 2>>}

\* Fluorescence values, and baseline values: zero, an ordinary value, one
\* near zero, and the NaN that compute_percentile_baseline leaves.
DffFluorescence == {R(8), R(10), R(12)}

DffBaselines == {Zero, R(10), Q(1, 100), NaN}

InitDff ==
    /\ pc = "call_compute_dff"
    /\ \E sh \in DffShapes :
          \E F \in Matrices(sh[1], sh[2], DffFluorescence),
             F0 \in Matrices(sh[1], sh[2], DffBaselines) :
             args = [fluorescence_trace |-> F, F0_baseline |-> F0]
    /\ ret = <<>>
    /\ NoPlane

CallComputeDff ==
    /\ pc = "call_compute_dff"
    /\ ret' = compute_dff(args.fluorescence_trace, args.F0_baseline)
    /\ pc' = "ret_compute_dff"
    /\ UNCHANGED <<args, pipeVars>>

NextDff == CallComputeDff

SpecDff == InitDff /\ [][NextDff]_vars

\* ---- filter_dim_rois ----

MaxRois == 3

FilterFrameCounts == {1, 2}

FilterValues == {R(0), R(1), R(10)}

\* threshold_std: the default 2, and smaller ones that remove ROIs from
\* matrices of MaxRois columns.
FilterThresholds == {R(0), Q(3, 4), R(1), R(2)}

InitFilter ==
    /\ pc = "call_filter_dim_rois"
    /\ \E T \in FilterFrameCounts, N \in 0..MaxRois :
          \E M \in Matrices(T, N, FilterValues), k \in FilterThresholds :
             args = [fluorescence_trace |-> M, threshold_std |-> k]
    /\ ret = <<>>
    /\ NoPlane

CallFilterDimRois ==
    /\ pc = "call_filter_dim_rois"
    /\ ret' = filter_dim_rois_std(args.fluorescence_trace, args.threshold_std)
    /\ pc' = "ret_filter_dim_rois"
    /\ UNCHANGED <<args, pipeVars>>

\* The filter applied again, with the same threshold, to the matrix it
\* returned; the first result is kept beside the second.
ReapplyFilterDimRois ==
    /\ pc = "ret_filter_dim_rois"
    /\ args' = [fluorescence_trace |-> ret.filtered,
                threshold_std |-> args.threshold_std]
    /\ ret' = [filtered |-> filter_dim_rois_std(ret.filtered, args.threshold_std).filtered,
               mask |-> filter_dim_rois_std(ret.filtered, args.threshold_std).mask,
               first |-> ret]
    /\ pc' = "ret_reapplied_filter_dim_rois"
    /\ UNCHANGED pipeVars

NextFilter ==
    \/ CallFilterDimRois
    \/ ReapplyFilterDimRois

SpecFilter == InitFilter /\ [][NextFilter]_vars

\* ---- filter_dim_rois on one-frame matrices of up to MaxWideRois ROIs ----

MaxWideRois == 5

\* threshold_std: the default 2, and two smaller ones.
WideThresholds == {R(1), Q(3, 2), R(2)}

InitWide ==
    /\ pc = "call_filter_dim_rois"
    /\ \E N \in 1..MaxWideRois :
          \E M \in Matrices(1, N, FilterValues), k \in WideThresholds :
             args = [fluorescence_trace |-> M, threshold_std |-> k]
    /\ ret = <<>>
    /\ NoPlane

SpecWide == InitWide /\ [][NextFilter]_vars

\* ---- filter_dim_rois on a matrix of 100 frames and 5 ROIs ----

\* Frames and ROIs.
ScenarioShape == <<100, 5>>

\* A trace around a level: level + a, level - a, level + a, ... ; over an
\* even number of frames its mean is the level.
ScenarioTrace(level, a, T) ==
    [t1 \in 1..T |-> R(IF t1 % 2 = 1 THEN level + a ELSE level - a)]

\* ROI p is dim and the others ("the rest") have the levels c - s, c + s,
\* c - s, ... in order: for an even number of them their mean is c and
\* their standard deviation s.  The dim ROI lies depth deviations below.
ScenarioMatrix(c, s, a, p, depth) ==
    LET T == ScenarioShape[1]
        N == ScenarioShape[2]
        level(i) == IF i = p THEN c - depth * s
                    ELSE IF (IF i < p THEN i ELSE i - 1) % 2 = 1 THEN c - s
                    ELSE c + s
    IN  Matrix(T, [i \in 1..N |-> ScenarioTrace(level(i), a, T)])

ScenarioMatrices ==
    {ScenarioMatrix(c, s, a, p, depth) :
        c \in {100, 200}, s \in {1, 2, 3}, a \in {0, 1},
        p \in 1..ScenarioShape[2], depth \in {10, 20}}

InitScenario ==
    /\ pc = "call_filter_dim_rois_scenario"
    /\ \E M \in ScenarioMatrices :
          args = [fluorescence_trace |-> M, threshold_std |-> DefaultThresholdStd]
    /\ ret = <<>>
    /\ NoPlane

CallFilterDimRoisScenario ==
    /\ pc = "call_filter_dim_rois_scenario"
    /\ ret' = filter_dim_rois_std(args.fluorescence_trace, args.threshold_std)
    /\ pc' = "ret_filter_dim_rois_scenario"
    /\ UNCHANGED <<args, pipeVars>>

NextScenario == CallFilterDimRoisScenario

SpecScenario == InitScenario /\ [][NextScenario]_vars

----------------------------------------------------------------------------
(* filter_dim_rois in the arithmetic NumPy computes it in: IEEE 754        *)
(* binary64, every operation rounded to nearest, ties to even.  A natural  *)
(* number is the sequence of its bits, least significant first, without    *)
(* leading zeros; a non-negative double is m * 2^e with m of MantissaBits  *)
(* bits, or zero with m = <<>>.  The values of the model are far from      *)
(* overflow and underflow.                                                 *)

\* The width of the significand of a double.
MantissaBits == 53

\* Bits kept below the significand when a quotient is formed.
GuardBits == 8

\* The four bits of a hexadecimal digit, least significant first.
HexDigitBits(d) == <<d % 2, (d \div 2) % 2, (d \div 4) % 2, (d \div 8) % 2>>

\* The bits of a number written in hexadecimal digits, most significant
\* digit first.
BitsOfHex(h) ==
    [i \in 1..(4 * Len(h)) |-> HexDigitBits(h[Len(h) - ((i - 1) \div 4)])[((i - 1) % 4) + 1]]

\* Without leading zeros.
Trim(b) ==
    LET ones == {i \in 1..Len(b) : b[i] = 1}
    IN  IF ones = {} THEN <<>>
        ELSE SubSeq(b, 1, CHOOSE i \in ones : \A j \in ones : j <= i)

\* Bit i of b, 0 beyond its length.
Bit(b, i) == IF i <= Len(b) THEN b[i] ELSE 0

\* The carry into position i of a + b: some lower position generates one
\* and every position between passes it on.
Carry(a, b, i) ==
    IF \E j \in 1..(i - 1) :
          /\ Bit(a, j) + Bit(b, j) = 2
          /\ \A k \in (j + 1)..(i - 1) : Bit(a, k) + Bit(b, k) >= 1
    THEN 1 ELSE 0

BAdd(a, b) ==
    LET n == (IF Len(a) > Len(b) THEN Len(a) ELSE Len(b)) + 1
    IN  Trim([i \in 1..n |-> (Bit(a, i) + Bit(b, i) + Carry(a, b, i)) % 2])

\* b * 2^k.
ShiftLeft(b, k) == IF b = <<>> THEN <<>> ELSE [i \in 1..k |-> 0] \o b

\* 2^k modulo n.
RECURSIVE Pow2Mod(_, _)
Pow2Mod(k, n) ==
    IF k = 0 THEN 1 % n
    ELSE LET h == Pow2Mod(k \div 2, n)
         IN  (h * h * (IF k % 2 = 1 THEN 2 ELSE 1)) % n

\* The sum of f[lo] .. f[hi].
RECURSIVE ISum(_, _, _)
ISum(f, lo, hi) ==
    IF lo > hi THEN 0
    ELSE IF lo = hi THEN f[lo]
    ELSE LET mid == (lo + hi) \div 2
         IN  ISum(f, lo, mid) + ISum(f, mid + 1, hi)

\* The number made of the bits of b above position i, modulo n.
RemAbove(b, i, n) ==
    ISum([j \in 1..Len(b) |-> IF j > i THEN b[j] * Pow2Mod(j - i - 1, n) ELSE 0],
         1, Len(b)) % n

\* Quotient and remainder of b by the small positive integer n, by long
\* division: the quotient bit at a position is that of twice the remainder
\* of the bits above it plus the bit itself.
BDiv(b, n) ==
    [q |-> Trim([i \in 1..Len(b) |-> (2 * RemAbove(b, i, n) + b[i]) \div n]),
     r |-> RemAbove(b, 0, n)]

\* a < b for two numbers of the same count of bits.
BLess(a, b) ==
    \E i \in 1..Len(a) : a[i] < b[i] /\ \A j \in (i + 1)..Len(a) : a[j] = b[j]

FZero == [m |-> <<>>, e |-> 0]

\* The double nearest to (b + f) * 2^e, for the bits b and a fraction f in
\* [0, 1) that is not zero exactly if sticky; ties go to the even
\* significand.  f is zero when b has fewer than MantissaBits + 1 bits.
RoundToDouble(b, e, sticky) ==
    LET bits == Trim(b)
        L    == Len(bits) - MantissaBits
    IN  IF bits = <<>> THEN FZero
        ELSE IF L <= 0 THEN [m |-> ShiftLeft(bits, -L), e |-> e + L]
        ELSE LET kept    == SubSeq(bits, L + 1, Len(bits))
                 half    == bits[L] = 1
                 below   == sticky \/ \E i \in 1..(L - 1) : bits[i] = 1
                 roundup == half /\ (below \/ kept[1] = 1)
                 m0      == IF roundup THEN BAdd(kept, <<1>>) ELSE kept
             IN  IF Len(m0) > MantissaBits
                 THEN [m |-> SubSeq(m0, 2, Len(m0)), e |-> e + L + 1]
                 ELSE [m |-> m0, e |-> e + L]

\* The double written 0x1.hhhhhhhhhhhhhp+x in C99 notation: h holds the 14
\* hexadecimal digits of the significand, the leading 1 included.
Double(h, x) == RoundToDouble(BitsOfHex(h), x - (MantissaBits - 1), FALSE)

\* x + y for non-negative doubles.
FAdd(x, y) ==
    IF x.m = <<>> THEN y
    ELSE IF y.m = <<>> THEN x
    ELSE LET emin == IF x.e < y.e THEN x.e ELSE y.e
         IN  RoundToDouble(BAdd(ShiftLeft(x.m, x.e - emin), ShiftLeft(y.m, y.e - emin)),
                           emin, FALSE)

\* x / n for a non-negative double x and an integer n in 1 .. 2^(GuardBits - 2).
FDivInt(x, n) ==
    LET d == BDiv(ShiftLeft(x.m, GuardBits), n)
    IN  RoundToDouble(d.q, x.e - GuardBits, d.r # 0)

\* x < y for non-negative doubles.
FLess(x, y) ==
    IF y.m = <<>> THEN FALSE
    ELSE IF x.m = <<>> THEN TRUE
    ELSE x.e < y.e \/ (x.e = y.e /\ BLess(x.m, y.m))

\* np.add.reduce of a vector of fewer than 8 doubles: added one by one,
\* from the first.
RECURSIVE FSum(_)
FSum(s) == IF Len(s) = 1 THEN s[1] ELSE FAdd(FSum(SubSeq(s, 1, Len(s) - 1)), s[Len(s)])

\* np.mean of a non-empty vector of doubles: the sum divided by the count.
FMean(v) == FDivInt(FSum(v), Len(v))

\* Lines 32-35 on a matrix of non-negative doubles with threshold_std = 0.0.
\* sigma is finite, so threshold_std * sigma is 0.0 and the cutoff
\* mu - 0.0 is mu.
filter_dim_rois_float64(fluorescence_trace_) ==
    LET N         == NCols(fluorescence_trace_)
        mean_fluo == Array([i \in 1..N |-> FMean(fluorescence_trace_.cols[i])])
        mu        == FMean(mean_fluo)
        mask      == [i \in 1..N |-> ~FLess(mean_fluo[i], mu)]
    IN  [filtered |-> SelectCols(fluorescence_trace_, mask), mask |-> mask,
         mean_fluo |-> mean_fluo, mu |-> mu]

MaxFloatRois == 3

\* 0.1, 0.2, 0.3, 0.7 and 1.0 as doubles.
FloatValues ==
    {Double(<<1, 9, 9, 9, 9, 9, 9, 9, 9, 9, 9, 9, 9, 10>>, -4),
     Double(<<1, 9, 9, 9, 9, 9, 9, 9, 9, 9, 9, 9, 9, 10>>, -3),
     Double(<<1, 3, 3, 3, 3, 3, 3, 3, 3, 3, 3, 3, 3, 3>>, -2),
     Double(<<1, 6, 6, 6, 6, 6, 6, 6, 6, 6, 6, 6, 6, 6>>, -1),
     Double(<<1, 0, 0, 0, 0, 0, 0, 0, 0, 0, 0, 0, 0, 0>>, 0)}

InitFloat ==
    /\ pc = "call_filter_dim_rois_float64"
    /\ \E N \in 1..MaxFloatRois :
          \E M \in Matrices(1, N, FloatValues) :
             args = [fluorescence_trace |-> M, threshold_std |-> FZero]
    /\ ret = <<>>
    /\ NoPlane

CallFilterDimRoisFloat ==
    /\ pc = "call_filter_dim_rois_float64"
    /\ ret' = filter_dim_rois_float64(args.fluorescence_trace)
    /\ pc' = "ret_filter_dim_rois_float64"
    /\ UNCHANGED <<args, pipeVars>>

NextFloat == CallFilterDimRoisFloat

SpecFloat == InitFloat /\ [][NextFloat]_vars

\* ---- compute_percentile_baseline ----

MaxTraceLen == 4

TraceValues == {R(-1), R(0), R(1), R(10)}

\* fps, tau, min_window_s, window_tau_multiplier with
\* window_s * fps = 0.75, 1.5, 2.5, 4 (from window_tau_multiplier * tau)
\* and 6 (tau = 6.0, line 152).
WindowParameters ==
    {<<Q(1, 20), Q(1, 10), R(15), R(40)>>, <<Q(1, 10), Q(1, 10), R(15), R(40)>>,
     <<Q(1, 6), Q(1, 10), R(15), R(40)>>, <<R(1), Q(1, 10), R(3), R(40)>>,
     <<Q(1, 40), R(6), R(15), R(40)>>}

Percentiles == {8, 50}

InstabilityRatios == {Q(1, 10), Q(1, 2)}

\* One ROI of up to MaxTraceLen frames, and two ROIs of one or two frames.
BaselineShapes == {<<T, 1>> : T \in 1..MaxTraceLen} \cup {<<1, 2>>, <<2, 2>>}

InitBaseline ==
    /\ pc = "call_compute_percentile_baseline"
    /\ \E sh \in BaselineShapes :
          \E M \in Matrices(sh[1], sh[2], TraceValues), wp \in WindowParameters,
             q \in Percentiles, r \in InstabilityRatios :
             args = [fluorescence_trace |-> M, fps |-> wp[1], tau |-> wp[2],
                     percentile |-> q, instability_ratio |-> r,
                     min_window_s |-> wp[3], window_tau_multiplier |-> wp[4]]
    /\ ret = <<>>
    /\ NoPlane

CallComputePercentileBaseline ==
    /\ pc = "call_compute_percentile_baseline"
    /\ ret' = compute_percentile_baseline(args.fluorescence_trace, args.fps,
                  args.tau, args.percentile, args.instability_ratio,
                  args.min_window_s, args.window_tau_multiplier)
    /\ pc' = "ret_compute_percentile_baseline"
    /\ UNCHANGED <<args, pipeVars>>

NextBaseline == CallComputePercentileBaseline

SpecBaseline == InitBaseline /\ [][NextBaseline]_vars

----------------------------------------------------------------------------
(* src/preprocessing/preprocessing_tiff.py: the correction of negative     *)
(* pixel values, lines 10-24 and 67-100.  A stack is a sequence of frames, *)
(* a frame the sequence of its pixels; pixels are signed 16-bit integers.  *)
(* The frames of the model have one pixel.                                 *)

\* The variables of dFoF_extraction.py, which the other scripts leave alone.
pipelineVars == <<F_npy, iscell_npy, params, fluorescence_trace, filtered_trace,
                  bright_rois_mask, F0_baseline, stable_rois_mask, deltaF_F,
                  final_indices, exc, loads, files, plane, driver, out, suspended>>

NoPipeline ==
    /\ F_npy = <<>>
    /\ iscell_npy = <<>>
    /\ params = <<>>
    /\ files = <<>>
    /\ plane = 0
    /\ Idle
    /\ driver = ""
    /\ out = {}
    /\ suspended = <<>>

Int16Min == -32768

Int16Max == 32767

Uint16Max == 65535

\* The value of a signed 16-bit integer after an operation whose exact
\* result is x: two's-complement wrap-around.
WrapInt16(x) == ((x - Int16Min) % (Uint16Max + 1)) + Int16Min

\* abs() of a NumPy int16 scalar (line 86): the result is an int16 too.
AbsInt16(x) == WrapInt16(Abs(x))

\* astype(np.uint16) of an integer array: the value modulo 2^16.
AsUint16(x) == x % (Uint16Max + 1)

\* np.clip(x, 0, 65535).
Clip(x) == IF x < 0 THEN 0 ELSE IF x > Uint16Max THEN Uint16Max ELSE x

\* Lines 21-24, on a sequence of frames; the sums fit in 32 bits.
correct_chunk_int16_to_uint16(chunk, offset) ==
    [f \in 1..Len(chunk) |-> [p \in 1..Len(chunk[f]) |-> AsUint16(Clip(chunk[f][p] + offset))]]

\* np.min of a stack.
StackMin(frames) ==
    CHOOSE m \in {frames[f][p] : f \in 1..Len(frames), p \in 1..Len(frames[1])} :
       \A f \in 1..Len(frames), p \in 1..Len(frames[1]) : m <= frames[f][p]

\* int(np.ceil(a / b)) for integers a >= 0 and b >= 1.
CeilDiv(a, b) == (a + b - 1) \div b

\* Lines 79-88: the minimum; a stack without negative values is returned
\* at once, for another the offset, the output array and the chunk size
\* are set up.  np.empty leaves the frames of corrected without defined
\* content (here <<>>) until they are written; writes counts the writes
\* to every frame.
TiffStart ==
    /\ pc = "call_correct_negative_values"
    /\ LET min_value == StackMin(args.frames)
       IN  IF min_value >= 0
           THEN /\ ret' = [f \in 1..Len(args.frames) |->
                             [p \in 1..Len(args.frames[f]) |-> AsUint16(args.frames[f][p])]]
                /\ pc' = "ret_correct_negative_values"
                /\ UNCHANGED locals
           ELSE /\ locals' = [min_value  |-> min_value,
                              offset     |-> AbsInt16(min_value),
                              corrected  |-> [f \in 1..Len(args.frames) |-> <<>>],
                              chunk_size |-> CeilDiv(Len(args.frames), args.num_chunks),
                              i          |-> 0,
                              writes     |-> [f \in 1..Len(args.frames) |-> 0]]
                /\ pc' = "chunks"
                /\ UNCHANGED ret
    /\ UNCHANGED <<args, disk, pipelineVars>>

\* Lines 90-96: one iteration of the loop over the chunks.
TiffChunk ==
    /\ pc = "chunks"
    /\ locals.i < args.num_chunks
    /\ LET start == locals.i * locals.chunk_size
           end   == IF (locals.i + 1) * locals.chunk_size < Len(args.frames)
                    THEN (locals.i + 1) * locals.chunk_size ELSE Len(args.frames)
           corrected_chunk ==
               correct_chunk_int16_to_uint16(PySlice(args.frames, start, end), locals.offset)
       IN  locals' = [locals EXCEPT
                        !.corrected = [f \in 1..Len(args.frames) |->
                                         IF start < f /\ f <= end
                                         THEN corrected_chunk[f - start] ELSE @[f]],
                        !.writes = [f \in 1..Len(args.frames) |->
                                      IF start < f /\ f <= end THEN @[f] + 1 ELSE @[f]],
                        !.i = @ + 1]
    /\ UNCHANGED <<pc, args, ret, disk, pipelineVars>>

\* Lines 98-100.
TiffReturn ==
    /\ pc = "chunks"
    /\ locals.i = args.num_chunks
    /\ ret' = locals.corrected
    /\ pc' = "ret_correct_negative_values"
    /\ UNCHANGED <<args, locals, disk, pipelineVars>>

MaxStackFrames == 3

MaxChunks == 4

PixelValues == {Int16Min, Int16Min + 1, -1, 0, 1, Int16Max}

InitTiff ==
    /\ pc = "call_correct_negative_values"
    /\ \E F \in 1..MaxStackFrames, n \in 1..MaxChunks :
          \E frames \in [1..F -> [{1} -> PixelValues]] :
             args = [frames |-> frames, num_chunks |-> n]
    /\ ret = <<>>
    /\ locals = <<>>
    /\ disk = <<>>
    /\ NoPipeline

NextTiff ==
    \/ TiffStart
    \/ TiffChunk
    \/ TiffReturn

SpecTiff == InitTiff /\ [][NextTiff]_vars

----------------------------------------------------------------------------
(* src/old2new_migration_no_docstrings.py: the execution of a copy plan,   *)
(* lines 85-107, 138-162 and 214-269.  A folder is the sequence of its     *)
(* path components from the root; Path.parent of the root is the root.  A  *)
(* file is a folder (dir) and a name; a name is the sequence of the pieces *)
(* it is made of when split at "_".  disk holds the destination side:      *)
(* files with their sizes, folders, and the rows of each manifest by the   *)
(* folder it lies in.                                                      *)

\* Path.parent of a folder.
Parent(d) == IF d = <<>> THEN <<>> ELSE SubSeq(d, 1, Len(d) - 1)

\* .parent taken k times.
RECURSIVE Parents(_, _)
Parents(d, k) == IF k = 0 THEN d ELSE Parents(Parent(d), k - 1)

\* The folder and every folder above it: what mkdir(parents=True) makes
\* sure exists.
WithParents(d) == {SubSeq(d, 1, k) : k \in 0..Len(d)}

\* Lines 87-106.
NewTreeRels ==
    {<<"01_raw", "2p", "anatomy">>, <<"01_raw", "2p", "functional">>,
     <<"01_raw", "2p", "metadata">>,
     <<"02_reg", "00_preprocessing", "2p_anatomy">>,
     <<"02_reg", "00_preprocessing", "2p_functional", "01_individualPlanes">>,
     <<"02_reg", "00_preprocessing", "2p_functional", "02_motionCorrected">>,
     <<"02_reg", "01_r1-2p", "logs">>, <<"02_reg", "01_r1-2p", "matrices">>,
     <<"02_reg", "02_rn-r1", "transMatrices">>, <<"02_reg", "02_rn-r1", "logs">>,
     <<"02_reg", "03_rn-2p", "transMatrices">>, <<"02_reg", "03_rn-2p", "logs">>,
     <<"02_reg", "04_r1-ref", "transMatrices">>, <<"02_reg", "04_r1-ref", "logs">>,
     <<"02_reg", "05_r2-ref", "transMatrices">>, <<"02_reg", "05_r2-ref", "logs">>,
     <<"02_reg", "06_total-ref", "transMatrices">>, <<"02_reg", "06_total-ref", "logs">>,
     <<"02_reg", "07_2pf-a", "transMatrices">>, <<"02_reg", "07_2pf-a", "logs">>,
     <<"02_reg", "08_2pa-ref", "transMatrices">>, <<"02_reg", "08_2pa-ref", "logs">>,
     <<"03_analysis", "structural", "cellpose">>,
     <<"03_analysis", "functional", "suite2P">>,
     <<"03_analysis", "functional", "dFoF">>,
     <<"04_plots">>}

\* Line 107.
describe_new_tree(new_root) == {new_root \o r : r \in NewTreeRels}

\* Lines 214-217.
ensure_tree(dirs, paths) == dirs \cup UNION {WithParents(p) : p \in paths}

\* The position of the first piece "anatomy" that has a piece on either
\* side (the substring "_anatomy_"), 0 if there is none.
AnatomyAt(name) ==
    LET at == {i \in 2..(Len(name) - 1) : name[i] = "anatomy"}
    IN  IF at = {} THEN 0 ELSE CHOOSE i \in at : \A j \in at : i <= j

\* Lines 138-162, for the names iter_sources yields: those of 00_raw,
\* 02_preprocessed and 03_motion_corrected start with the old fish id and
\* "_"; in those of 01_metadata the old fish id stands between two "_",
\* where the pattern of line 149 finds no word boundary, so that the name
\* is kept.
map_destination(src, stage, new_root, new_fish_id) ==
    IF stage = "00_raw"
    THEN IF AnatomyAt(src.name) > 0
         THEN [dir  |-> new_root \o <<"01_raw", "2p", "anatomy">>,
               name |-> <<new_fish_id, "anatomy">>
                           \o SubSeq(src.name, AnatomyAt(src.name) + 1, Len(src.name))]
         ELSE [dir  |-> new_root \o <<"01_raw", "2p", "functional">>,
               name |-> <<new_fish_id>>
                           \o (IF Len(src.name) > 1 THEN Tail(src.name) ELSE src.name)]
    ELSE IF stage = "01_metadata"
    THEN [dir |-> new_root \o <<"01_raw", "2p", "metadata">>, name |-> src.name]
    ELSE IF stage = "02_preprocessed"
    THEN IF Len(src.name) >= 3 /\ SubSeq(src.name, Len(src.name) - 1, Len(src.name))
                                     = <<"preprocessing", "metadata.json">>
         THEN [dir  |-> new_root \o <<"02_reg", "00_preprocessing", "2p_functional">>,
               name |-> <<new_fish_id, "preprocessing", "metadata.json">>]
         ELSE [dir  |-> new_root \o <<"02_reg", "00_preprocessing", "2p_functional",
                                      "01_individualPlanes">>,
               name |-> <<new_fish_id>> \o Tail(src.name)]
    ELSE IF stage = "03_motion_corrected"
    THEN [dir  |-> new_root \o <<"02_reg", "00_preprocessing", "2p_functional",
                                 "02_motionCorrected">>,
          name |-> <<new_fish_id>> \o Tail(src.name)]
    ELSE [dir  |-> new_root \o <<"03_analysis", "functional", "suite2P",
                                 src.dir[Len(src.dir)]>>,
          name |-> <<new_fish_id>> \o src.name]

\* Lines 167-176: the plan row of one source of a stage folder.
PlanRow(base_dir, old_fish, new_fish, stage, src) ==
    [old_fish |-> old_fish, new_fish |-> new_fish, stage |-> stage, source |-> src,
     destination |-> map_destination(src, stage, base_dir \o <<new_fish>>, new_fish)]

\* Lines 249-251 and 261-263: the folder taken for the fish root of a row.
FishRoot(row) == Parents(row.destination.dir, 5)

\* dst.exists()
Exists(on_disk, dst) == \E f \in on_disk : f.dir = dst.dir /\ f.name = dst.name

\* What shutil.copy2 and the size check of line 226 can come to: the copy
\* is complete; it returns but the sizes differ; it raises after it wrote
\* a part of the file; it raises before it created the file.
CopyOutcomes == {"complete", "mismatch", "cut", "failed"}

\* Variant of copy_with_checks without the test of line 222.
copy_with_checks_overwrite(on_disk, dirs, src, dst, outcome) ==
    LET others == {f \in on_disk : ~(f.dir = dst.dir /\ f.name = dst.name)}
    IN  [status |-> IF outcome = "complete" THEN "COPIED" ELSE "ERROR",
         note   |-> IF outcome = "complete" THEN ""
                    ELSE IF outcome = "mismatch" THEN "size mismatch" ELSE "exception",
         files  |-> IF outcome = "failed" THEN on_disk
                    ELSE others \cup {[dir |-> dst.dir, name |-> dst.name,
                                       size |-> IF outcome = "complete" THEN src.size
                                                ELSE src.size - 1]},
         dirs   |-> dirs \cup WithParents(dst.dir)]

\* Lines 219-230, given what the copy comes to if it is attempted.
copy_with_checks(on_disk, dirs, src, dst, outcome) ==
    IF Exists(on_disk, dst)
    THEN [status |-> "SKIP", note |-> "destination exists", files |-> on_disk, dirs |-> dirs]
    ELSE [status |-> IF outcome = "complete" THEN "COPIED" ELSE "ERROR",
          note   |-> IF outcome = "complete" THEN ""
                     ELSE IF outcome = "mismatch" THEN "size mismatch" ELSE "exception",
          files  |-> IF outcome = "failed" THEN on_disk
                     ELSE on_disk \cup {[dir |-> dst.dir, name |-> dst.name,
                                       size |-> IF outcome = "complete" THEN src.size
                                                ELSE src.size - 1]},
          dirs   |-> dirs \cup WithParents(dst.dir)]

\* Lines 232-241: the rows are appended to the manifest of the folder.
write_manifest(manifests, rows, dir) ==
    IF rows = <<>> THEN manifests
    ELSE [d \in DOMAIN manifests \cup {dir} |->
             IF d = dir
             THEN (IF d \in DOMAIN manifests THEN manifests[d] ELSE <<>>) \o rows
             ELSE manifests[d]]

\* Lines 245-254: the fish roots of the rows and their folder trees.  The
\* number of the execution stands for the time stamp.
ExecStart ==
    /\ pc = "call_execute_from_plan"
    /\ LET fish_roots == {FishRoot(args.plan_df[i]) : i \in 1..Len(args.plan_df)}
       IN  /\ disk' = [disk EXCEPT !.dirs =
                          ensure_tree(@, UNION {describe_new_tree(root) : root \in fish_roots})]
           /\ locals' = [now |-> Len(ret) + 1,
                         status_counts |-> [COPIED |-> 0, SKIP |-> 0, ERROR |-> 0],
                         fish_roots |-> fish_roots,
                         per_fish_rows |-> <<>>,
                         i |-> 1,
                         statuses |-> <<>>]
    /\ pc' = "rows"
    /\ UNCHANGED <<args, ret, pipelineVars>>

\* Lines 256-266: one row of the plan.
ExecRow ==
    /\ pc = "rows"
    /\ locals.i <= Len(args.plan_df)
    /\ \E outcome \in CopyOutcomes :
          LET row == args.plan_df[locals.i]
              r   == copy_with_checks(disk.files, disk.dirs, row.source, row.destination,
                                      outcome)
              key == FishRoot(row)
              line == [time |-> locals.now, source |-> row.source,
                       destination |-> row.destination, action |-> "COPY",
                       status |-> r.status, note |-> r.note]
          IN  /\ disk' = [disk EXCEPT !.files = r.files, !.dirs = r.dirs]
              /\ locals' = [locals EXCEPT
                              !.status_counts[r.status] = @ + 1,
                              !.per_fish_rows = write_manifest(@, <<line>>, key),
                              !.i = @ + 1,
                              !.statuses = Append(@, r.status)]
    /\ UNCHANGED <<pc, args, ret, pipelineVars>>

\* Lines 267-269: the manifests are written and the counts returned.  ret
\* keeps what every execution returned, with the statuses it reported and
\* the disk as it left it.
ExecReturn ==
    /\ pc = "rows"
    /\ locals.i > Len(args.plan_df)
    /\ LET written == [d \in DOMAIN disk.manifests \cup DOMAIN locals.per_fish_rows |->
                          IF d \in DOMAIN locals.per_fish_rows
                          THEN write_manifest(disk.manifests, locals.per_fish_rows[d], d)[d]
                          ELSE disk.manifests[d]]
           after   == [disk EXCEPT !.manifests = written,
                                   !.dirs = @ \cup UNION {WithParents(d) :
                                                   d \in DOMAIN locals.per_fish_rows}]
       IN  /\ disk' = after
           /\ ret' = Append(ret, [status_counts |-> locals.status_counts,
                                  statuses |-> locals.statuses, disk |-> after])
    /\ pc' = "ret_execute_from_plan"
    /\ UNCHANGED <<args, locals, pipelineVars>>

MaxRuns == 2

\* The same plan is executed again.
ExecAgain ==
    /\ pc = "ret_execute_from_plan"
    /\ Len(ret) < MaxRuns
    /\ pc' = "call_execute_from_plan"
    /\ UNCHANGED <<args, ret, locals, disk, pipelineVars>>

MaxPlanRows == 2

\* The folders the new fish folders are made in.
BaseDirs == {<<"data", "new">>, <<"new">>}

\* Sources of two fish, all of size 2, with the stage they are in and the
\* new fish id of line 167, in the order plan_multifish puts them in: by
\* fish, by stage (line 74), and within a stage as iter_sources yields them.
PlanSources ==
    <<<<"f1", "L001", "00_raw",
        [dir |-> <<"old", "f1", "00_raw">>, name |-> <<"f1", "00001.tif">>, size |-> 2]>>,
      <<"f1", "L001", "00_raw",
        [dir |-> <<"old", "f1", "00_raw">>, name |-> <<"f1", "anatomy", "00001.tif">>, size |-> 2]>>,
      <<"f1", "L001", "04_segmented",
        [dir |-> <<"old", "f1", "04_segmented", "plane0">>, name |-> <<"F.npy">>, size |-> 2]>>,
      <<"f2", "L002", "01_metadata",
        [dir |-> <<"old", "f2", "01_metadata">>, name |-> <<"exp", "f2", "log.csv">>, size |-> 2]>>,
      <<"f2", "L002", "02_preprocessed",
        [dir |-> <<"old", "f2", "02_preprocessed">>, name |-> <<"f2", "plane0.tif">>, size |-> 2]>>,
      <<"f2", "L002", "03_motion_corrected",
        [dir |-> <<"old", "f2", "03_motion_corrected">>,
         name |-> <<"f2", "plane0", "mcorrected.tif">>, size |-> 2]>>>>

\* The k-th smallest member of a set of numbers.
KthOf(S, k) == CHOOSE i \in S : Cardinality({j \in S : j < i}) = k - 1

\* The plans of up to MaxPlanRows of these sources for a base folder, the
\* rows in the order of the sources.
Plans(base_dir) ==
    LET row(s) == PlanRow(base_dir, s[1], s[2], s[3], s[4])
    IN  {[k \in 1..Cardinality(S) |-> row(PlanSources[KthOf(S, k)])] :
            S \in {S \in SUBSET (1..Len(PlanSources)) :
                      Cardinality(S) \in 1..MaxPlanRows}}

InitMigration ==
    /\ pc = "call_execute_from_plan"
    /\ \E base_dir \in BaseDirs :
          \E plan_df \in Plans(base_dir) :
             args = [plan_df |-> plan_df, base_dir |-> base_dir]
    /\ ret = <<>>
    /\ locals = <<>>
    /\ disk = [files |-> {}, dirs |-> {}, manifests |-> <<>>]
    /\ NoPipeline

NextMigration ==
    \/ ExecStart
    \/ ExecRow
    \/ ExecReturn
    \/ ExecAgain

SpecMigration == InitMigration /\ [][NextMigration]_vars

----------------------------------------------------------------------------
(* Properties.                                                             *)

\* The number of true entries among the first i of a mask.
RankIn(mask, i) == Cardinality({k \in 1..i : mask[k]})

Range(s) == {s[j] : j \in 1..Len(s)}

StrictlyIncreasing(s) == \A j \in 1..(Len(s) - 1) : s[j] < s[j + 1]

\* (F - F0) / F0, and (F - F0) / eps where F0 is exactly 0.
ExpectedDff(F, F0) ==
    IF F0 = Zero THEN RDiv(RSub(F, F0), <<1, 1, -52>>) ELSE RDiv(RSub(F, F0), F0)

\* ROI i (1-based) of the plane is a cell, is at a true position of the
\* brightness mask among the cells, and at a true position of the
\* stability mask among the bright cells.
SurvivesAll(i) ==
    /\ iscell_npy[i]
    /\ bright_rois_mask[RankIn(iscell_npy, i)]
    /\ stable_rois_mask[RankIn(bright_rois_mask, RankIn(iscell_npy, i))]

\* The baseline column of a trace of the plane under the run's parameters.
PlaneBaselineColumn(trace) ==
    LET w == WindowFrames(params.fps, params.tau, params.min_window_s,
                          params.window_tau_multiplier)
    IN  BaselineColumn(LocalBaseline(trace, w, params.percentile), w,
                       params.instability_ratio)

\* C1: the retained-index list is the increasing list of the original
\* indices that pass the classification mask, then the brightness mask,
\* then the stability mask, and column j of the returned dF/F matrix is
\* computed from the original ROI whose index is entry j of the list; the
\* masks [1,0,1,1,0,1], [1,0,1,1] and [1,1,1] give [0,3,5].
C1_IndexReconciliation ==
    /\ ReconcileIndices(<<TRUE, FALSE, TRUE, TRUE, FALSE, TRUE>>,
                        <<TRUE, FALSE, TRUE, TRUE>>, <<TRUE, TRUE, TRUE>>)
          = <<0, 3, 5>>
    /\ pc = "done" =>
          /\ StrictlyIncreasing(final_indices)
          /\ Range(final_indices) = {i - 1 : i \in {k \in 1..NCols(F_npy) : SurvivesAll(k)}}
          /\ NCols(deltaF_F) = Len(final_indices)
          /\ \A j \in 1..Len(final_indices) :
                LET raw == F_npy.cols[final_indices[j] + 1]
                    F0  == PlaneBaselineColumn(raw)
                IN  deltaF_F.cols[j] =
                       [t1 \in 1..F_npy.T |-> ExpectedDff(raw[t1], F0[t1])]

\* A run returned in which the classification mask and the brightness
\* filter both removed a ROI and some ROI was retained.
C1_Witness ==
    /\ pc = "done"
    /\ \E i \in 1..Len(iscell_npy) : ~iscell_npy[i]
    /\ \E i \in 1..Len(bright_rois_mask) : ~bright_rois_mask[i]
    /\ Len(final_indices) >= 2

\* C2: every entry of compute_dff is (F - F0) / F0 where the baseline
\* entry is not exactly 0 (a baseline near 0 is divided by as it is) and
\* (F - F0) / eps, eps a fixed positive number, where it is 0; F = 10, 12, 8
\* over the constant baseline 10 gives 0, 0.2, -0.2.
C2_DffValues ==
    pc = "ret_compute_dff" =>
       LET F  == args.fluorescence_trace
           F0 == args.F0_baseline
       IN  /\ ret.T = F.T
           /\ NCols(ret) = NCols(F)
           /\ \A n \in 1..NCols(F) : \A t1 \in 1..F.T :
                 ret.cols[n][t1] = ExpectedDff(F.cols[n][t1], F0.cols[n][t1])
           /\ (F.cols = << <<R(10), R(12), R(8)>> >>
                 /\ F0.cols = << <<R(10), R(10), R(10)>> >>)
              => ret.cols = << <<Zero, Q(1, 5), Q(-1, 5)>> >>

\* compute_dff returned for F = 10, 12, 8 over the constant baseline 10.
C2_Witness ==
    /\ pc = "ret_compute_dff"
    /\ args.fluorescence_trace.cols = << <<R(10), R(12), R(8)>> >>
    /\ args.F0_baseline.cols = << <<R(10), R(10), R(10)>> >>
    /\ ret.cols = << <<Zero, Q(1, 5), Q(-1, 5)>> >>

\* The integer a number of the filter's input stands for.
IntOf(x) == x[1]

\* The sum of the frames of ROI i of the matrix M (T times its mean).
FrameSum(M, i) ==
    LET RECURSIVE Upto(_)
        Upto(t) == IF t = 0 THEN 0 ELSE IntOf(M.cols[i][t]) + Upto(t - 1)
    IN  Upto(M.T)

\* N times the frame sum of ROI i minus the total of the frame sums:
\* N * T times the deviation of the ROI's mean from the mean of the means.
Deviation(M, i) ==
    LET RECURSIVE Total(_)
        Total(j) == IF j = 0 THEN 0 ELSE FrameSum(M, j) + Total(j - 1)
    IN  NCols(M) * FrameSum(M, i) - Total(NCols(M))

SumSqDeviations(M) ==
    LET RECURSIVE Upto(_)
        Upto(j) == IF j = 0 THEN 0 ELSE Deviation(M, j) * Deviation(M, j) + Upto(j - 1)
    IN  Upto(NCols(M))

\* m[i] >= mu - (kn / kd) * sigma for the population sigma, kn / kd >= 0,
\* in integers: with D[i] = N * T * (m[i] - mu) and
\* sigma^2 = (1 / N) * sum of (m[j] - mu)^2, it is D[i] >= 0 or
\* N * kd^2 * D[i]^2 <= kn^2 * (sum of the D[j]^2).
RetainedByRule(M, i, kn, kd) ==
    \/ Deviation(M, i) >= 0
    \/ NCols(M) * kd * kd * Deviation(M, i) * Deviation(M, i)
          <= kn * kn * SumSqDeviations(M)

\* C3: filter_dim_rois retains a ROI iff its mean over the frames is at
\* least mu - threshold_std * sigma, mu the mean and sigma the population
\* (divide-by-N) standard deviation of the means of all the ROIs passed in.
C3_RetentionRule ==
    pc = "ret_filter_dim_rois" =>
       \A i \in 1..NCols(args.fluorescence_trace) :
          ret.mask[i] <=> RetainedByRule(args.fluorescence_trace, i,
                                         args.threshold_std[1], args.threshold_std[2])

\* The filter returned having removed one ROI and retained another, with a
\* threshold at which the sample (divide-by-(N-1)) deviation would have
\* kept both.
C3_Witness ==
    /\ pc = "ret_filter_dim_rois"
    /\ args.threshold_std = Q(3, 4)
    /\ NCols(args.fluorescence_trace) = 2
    /\ ~ret.mask[1]
    /\ ret.mask[2]

\* The minimum of the series is less than ratio times its maximum.
DipsBelow(series, ratio) ==
    \E a \in Range(series), b \in Range(series) :
       /\ \A x \in Range(series) : ~RLess(x, a) /\ ~RLess(b, x)
       /\ RLess(a, RMul(ratio, b))

\* The unsmoothed local baseline of column n of filtered_trace dips below
\* instability_ratio times its maximum.
PlaneDips(n) ==
    LET w == WindowFrames(params.fps, params.tau, params.min_window_s,
                          params.window_tau_multiplier)
    IN  DipsBelow(LocalBaseline(filtered_trace.cols[n], w, params.percentile),
                  params.instability_ratio)

\* C4: a ROI is declared unstable (its baseline column left NaN) exactly
\* when the minimum of its unsmoothed local baseline is less than
\* instability_ratio times the maximum; in the output of a run that
\* returns, the original index of every unstable ROI is absent from the
\* retained-index list and it has no dF/F column, and every other ROI
\* passed to the baseline estimation keeps its index and column.
C4_UnstableExcluded ==
    pc = "done" =>
       LET kept == Compress(Where(iscell_npy), bright_rois_mask)
       IN  /\ \A n \in 1..NCols(filtered_trace) :
                 /\ (\A t1 \in 1..F0_baseline.T : IsNaN(F0_baseline.cols[n][t1]))
                       <=> PlaneDips(n)
                 /\ PlaneDips(n) <=> kept[n] \notin Range(final_indices)
           /\ NCols(deltaF_F)
                 = Cardinality({n \in 1..NCols(filtered_trace) : ~PlaneDips(n)})

\* A run returned in which one ROI was unstable and another was not.
C4_Witness ==
    /\ pc = "done"
    /\ \E n \in 1..Len(stable_rois_mask) : ~stable_rois_mask[n]
    /\ \E n \in 1..Len(stable_rois_mask) : stable_rois_mask[n]
    /\ Len(final_indices) < NCols(filtered_trace)

\* C5: for a trace whose frames all equal v, for every v, the local
\* baseline is v at every frame and the ROI is not marked unstable: its
\* baseline column, when the call returns, is not the NaN sentinel.
C5_ConstantTraceStable ==
    pc = "ret_compute_percentile_baseline" =>
       LET trace == args.fluorescence_trace.cols[1]
       IN  (\A t1 \in 1..Len(trace) : trace[t1] = trace[1]) =>
              /\ \A t1 \in 1..Len(trace) : ret.local_baseline[1][t1] = trace[1]
              /\ ~ret.unstable[1]
              /\ ~ret.raised =>
                    \A t1 \in 1..Len(trace) : ~IsNaN(ret.F0_baseline.cols[1][t1])

\* C6: the values the local baseline at frame t is computed from are the
\* trace entries of index max(0, t - w) .. min(T, t + w + 1) - 1: inside
\* [0, T), containing t, clipped and neither wrapped nor padded.
C6_ClippedCentredWindow ==
    pc = "ret_compute_percentile_baseline" =>
       LET trace == args.fluorescence_trace.cols[1]
           T     == args.fluorescence_trace.T
           w     == ret.window_frames
       IN  /\ w >= 0
           /\ \A t \in 0..(T - 1) :
                 LET lo == IF t - w < 0 THEN 0 ELSE t - w
                     hi == (IF t + w + 1 > T THEN T ELSE t + w + 1) - 1
                 IN  /\ ret.window[t + 1] = <<lo, hi + 1>>
                     /\ 0 <= lo /\ lo <= t /\ t <= hi /\ hi < T
                     /\ ret.local_baseline[1][t + 1]
                           = Percentile([k \in 1..(hi - lo + 1) |-> trace[lo + k]],
                                        args.percentile)

\* The baseline of a trace of 4 frames returned with window_frames = 1: the
\* window is clipped at frame 0 and at frame 3 and whole at frames 1 and 2.
C6_Witness ==
    /\ pc = "ret_compute_percentile_baseline"
    /\ args.fluorescence_trace.T = 4
    /\ ret.window_frames = 1
    /\ ret.window = << <<0, 2>>, <<0, 3>>, <<1, 4>>, <<2, 4>> >>

\* C7 as stated: the window at t = 0 spans [0, window_frames + 1) and the
\* window at t = T - 1 spans [T - 1 - window_frames, T), for every T and
\* window_frames.
C7_FullSpansAtEnds ==
    pc = "ret_compute_percentile_baseline" =>
       LET T == args.fluorescence_trace.T
           w == ret.window_frames
       IN  /\ ret.window[1] = <<0, w + 1>>
           /\ ret.window[T] = <<T - 1 - w, T>>

\* C7 as amended: the window at t = 0 spans [0, min(T, window_frames + 1))
\* and the window at t = T - 1 spans [max(0, T - 1 - window_frames), T);
\* these are [0, window_frames + 1) and [T - 1 - window_frames, T) when
\* window_frames < T.
C7_ClippedSpansAtEnds ==
    pc = "ret_compute_percentile_baseline" =>
       LET T == args.fluorescence_trace.T
           w == ret.window_frames
       IN  /\ ret.window[1] = <<0, IF w + 1 < T THEN w + 1 ELSE T>>
           /\ ret.window[T] = <<IF T - 1 - w > 0 THEN T - 1 - w ELSE 0, T>>
           /\ w < T => /\ ret.window[1] = <<0, w + 1>>
                       /\ ret.window[T] = <<T - 1 - w, T>>

\* The baseline of a trace of at least 2 frames returned with a window
\* that is longer than the trace.
C7_Witness ==
    /\ pc = "ret_compute_percentile_baseline"
    /\ args.fluorescence_trace.T >= 2
    /\ ret.window_frames >= args.fluorescence_trace.T
    /\ ret.window[1] = <<0, args.fluorescence_trace.T>>

\* Numerator and denominator of window_s * fps for the arguments of the
\* call, window_s the larger of min_window_s and window_tau_multiplier * tau
\* (all arguments are fractions n / d here, d > 0).
ProductNum ==
    LET mt_n == args.window_tau_multiplier[1] * args.tau[1]
        mt_d == args.window_tau_multiplier[2] * args.tau[2]
        ms_n == args.min_window_s[1]
        ms_d == args.min_window_s[2]
    IN  IF ms_n * mt_d < mt_n * ms_d THEN mt_n * args.fps[1] ELSE ms_n * args.fps[1]

ProductDen ==
    LET mt_n == args.window_tau_multiplier[1] * args.tau[1]
        mt_d == args.window_tau_multiplier[2] * args.tau[2]
        ms_n == args.min_window_s[1]
        ms_d == args.min_window_s[2]
    IN  IF ms_n * mt_d < mt_n * ms_d THEN mt_d * args.fps[2] ELSE ms_d * args.fps[2]

\* The integer nearest to a positive num / den, the even one of two.
NearestInteger(num, den) ==
    LET f == num \div den
        r == num % den
    IN  IF 2 * r < den THEN f
        ELSE IF 2 * r > den THEN f + 1
        ELSE IF f % 2 = 0 THEN f ELSE f + 1

\* C8 as stated: window_frames is window_s * fps rounded to the nearest
\* integer.
C8_RoundedWindowFrames ==
    pc = "ret_compute_percentile_baseline" =>
       ret.window_frames = NearestInteger(ProductNum, ProductDen)

\* C8 as amended: window_frames is window_s * fps truncated to an integer
\* (its floor, the product being positive), window_s the larger of
\* min_window_s and window_tau_multiplier * tau; that one number is the
\* half-width of every percentile window and the size of the smoothing.
C8_TruncatedWindowFrames ==
    pc = "ret_compute_percentile_baseline" =>
       LET w == ProductNum \div ProductDen
           T == args.fluorescence_trace.T
       IN  /\ ret.window_frames = w
           /\ \A t \in 0..(T - 1) :
                 /\ ret.window[t + 1][1] = (IF t - w > 0 THEN t - w ELSE 0)
                 /\ ret.window[t + 1][2] = (IF t + w + 1 < T THEN t + w + 1 ELSE T)
           /\ (~ret.raised /\ ~ret.unstable[1]) =>
                 ret.F0_baseline.cols[1] = uniform_filter1d(ret.local_baseline[1], w)

\* The call returned for a product window_s * fps whose fractional part is
\* at least one half (0.75, 1.5 or 2.5), with a smoothed baseline column.
C8_Witness ==
    /\ pc = "ret_compute_percentile_baseline"
    /\ 2 * (ProductNum % ProductDen) >= ProductDen
    /\ ret.window_frames >= 1
    /\ ~ret.raised
    /\ ~ret.unstable[1]

\* C9: where a baseline entry is exactly 0 the divisor of compute_dff is
\* one strictly positive constant, so that the dF/F entry is finite; a
\* baseline entry that is not 0 is the divisor as it is.
C9_ZeroBaselineSafe ==
    pc = "ret_compute_dff" =>
       LET F  == args.fluorescence_trace
           F0 == args.F0_baseline
       IN  \A n \in 1..NCols(F) : \A t1 \in 1..F.T :
              LET divisor == baseline_safe(F0.cols[n][t1])
              IN  IF F0.cols[n][t1] = Zero
                  THEN /\ divisor = <<1, 1, -52>>
                       /\ divisor[1] > 0 /\ divisor[2] > 0
                       /\ IsFinite(ret.cols[n][t1])
                       /\ RMul(ret.cols[n][t1], divisor) = F.cols[n][t1]
                  ELSE /\ divisor = F0.cols[n][t1]
                       /\ IsFinite(F0.cols[n][t1]) =>
                             RMul(ret.cols[n][t1], divisor)
                                = RSub(F.cols[n][t1], F0.cols[n][t1])

\* compute_dff returned for a baseline with an entry 0 and an entry not 0.
C9_Witness ==
    /\ pc = "ret_compute_dff"
    /\ \E n \in 1..NCols(ret) : \E t1 \in 1..ret.T :
          /\ args.F0_baseline.cols[n][t1] = Zero
          /\ ret.cols[n][t1] = <<args.fluorescence_trace.cols[n][t1][1], 1, 52>>
    /\ \E n \in 1..NCols(ret) : \E t1 \in 1..ret.T :
          args.F0_baseline.cols[n][t1] = Q(1, 100)

\* The position of the j-th true entry of a mask.
PositionOfTrue(mask, j) == CHOOSE i \in 1..Len(mask) : mask[i] /\ RankIn(mask, i) = j

\* C10: filter_dim_rois returns a mask of length N and a matrix of the same
\* frame count with as many columns as the mask has true entries, at most
\* N: the input columns at the true positions, in their order.
C10_FilterShape ==
    pc = "ret_filter_dim_rois" =>
       LET M == args.fluorescence_trace
           N == NCols(M)
           kept == Cardinality({i \in 1..N : ret.mask[i]})
       IN  /\ Len(ret.mask) = N
           /\ \A i \in 1..N : ret.mask[i] \in BOOLEAN
           /\ ret.filtered.T = M.T
           /\ NCols(ret.filtered) = kept
           /\ NCols(ret.filtered) <= N
           /\ \A j \in 1..NCols(ret.filtered) :
                 /\ j <= kept
                 /\ ret.filtered.cols[j] = M.cols[PositionOfTrue(ret.mask, j)]
                 /\ Len(ret.filtered.cols[j]) = M.T

\* The filter returned having removed the first of three ROIs and
\* retained the two others, whose traces differ.
C10_Witness ==
    /\ pc = "ret_filter_dim_rois"
    /\ ret.mask = <<FALSE, TRUE, TRUE>>
    /\ NCols(ret.filtered) = 2
    /\ ret.filtered.cols[1] # ret.filtered.cols[2]

\* ROI p of the matrix M has a lower mean than every other ROI.
Dimmest(M, p) ==
    \A i \in 1..NCols(M) : i # p => FrameSum(M, p) < FrameSum(M, i)

\* C11: for a matrix of 100 frames and 5 ROIs in which one ROI has a mean
\* 10 standard deviations below the rest, filter_dim_rois with
\* threshold_std = 2 excludes that ROI and retains the other 4.
C11_DimRoiExcluded ==
    pc = "ret_filter_dim_rois_scenario" =>
       \A p \in 1..NCols(args.fluorescence_trace) :
          Dimmest(args.fluorescence_trace, p) =>
             \A i \in 1..NCols(args.fluorescence_trace) : ret.mask[i] <=> i # p

\* Every ROI of ret.filtered has the same mean.
EqualMeans(M) ==
    \A i \in 1..NCols(M), j \in 1..NCols(M) : FrameSum(M, i) = FrameSum(M, j)

AllTrue(mask) == \A i \in 1..Len(mask) : mask[i]

C13_LowEndCutoffOnly ==
    pc = "ret_filter_dim_rois" =>
       LET M == args.fluorescence_trace
       IN  /\ \A i \in 1..NCols(M) : Deviation(M, i) >= 0 => ret.mask[i]
           /\ \A i \in 1..NCols(M), j \in 1..NCols(M) :
                 ~ret.mask[i] /\ ret.mask[j] => FrameSum(M, i) < FrameSum(M, j)

\* The filter removed a ROI and retained two others of different means,
\* one of them below the mean of the means.
C13_Witness ==
    /\ pc = "ret_filter_dim_rois"
    /\ LET M == args.fluorescence_trace
       IN  \E i \in 1..NCols(M), j \in 1..NCols(M), l \in 1..NCols(M) :
              /\ ~ret.mask[i] /\ ret.mask[j] /\ ret.mask[l]
              /\ FrameSum(M, j) < FrameSum(M, l)
              /\ Deviation(M, j) < 0

\* C18: the retained-index list that process_suite2p_fluorescence returns
\* is strictly increasing (so without duplicates), has as many entries as
\* the dF/F matrix has columns, and each entry is an index of the original
\* ROI numbering at which the classification mask is true.
C18_OrderedIndexList ==
    pc = "done" =>
       /\ \A j \in 1..Len(final_indices) :
             /\ final_indices[j] \in 0..(NCols(F_npy) - 1)
             /\ iscell_npy[final_indices[j] + 1]
       /\ \A j \in 1..Len(final_indices), l \in 1..Len(final_indices) :
             j < l => final_indices[j] < final_indices[l]
       /\ Len(final_indices) = NCols(deltaF_F)

\* A run returned two ROIs or more of a plane whose first ROI is not a
\* cell: no retained index is the position of its column in dF/F.
C18_Witness ==
    /\ pc = "done"
    /\ Len(iscell_npy) >= 1
    /\ ~iscell_npy[1]
    /\ Len(final_indices) >= 2
    /\ \A j \in 1..Len(final_indices) : final_indices[j] # j - 1

\* C19: compute_percentile_baseline returns a matrix of the shape of its
\* input, no column dropped: the column of a ROI that fails the stability
\* test is NaN at every frame, the column of a ROI that passes holds no
\* NaN (the input being finite), and so the stability mask of line 127 is
\* true exactly for the ROIs that passed.
C19_SameShapeNaNColumns ==
    pc = "ret_compute_percentile_baseline" /\ ~ret.raised =>
       LET M  == args.fluorescence_trace
           F0 == ret.F0_baseline
       IN  /\ F0.T = M.T
           /\ NCols(F0) = NCols(M)
           /\ \A n \in 1..NCols(M) :
                 /\ Len(F0.cols[n]) = M.T
                 /\ ret.unstable[n] => \A t1 \in 1..M.T : IsNaN(F0.cols[n][t1])
                 /\ ~ret.unstable[n] => \A t1 \in 1..M.T : IsFinite(F0.cols[n][t1])
                 /\ StableMask(F0)[n] <=> ~ret.unstable[n]

\* The call returned the baseline of two ROIs, one that failed the test
\* and one that passed it.
C19_Witness ==
    /\ pc = "ret_compute_percentile_baseline"
    /\ ~ret.raised
    /\ NCols(ret.F0_baseline) = 2
    /\ ret.unstable[1] /\ ~ret.unstable[2]
    /\ StableMask(ret.F0_baseline) = <<FALSE, TRUE>>

\* One of the three filters of the run leaves no ROI: no ROI is a cell, or
\* no cell is bright, or no bright cell passes the stability test.
Emptied ==
    \/ /\ pc \in {"masked", "filtered", "baselined", "stable_masked", "normalized", "done"}
       /\ NCols(fluorescence_trace) = 0
    \/ /\ pc \in {"filtered", "baselined", "stable_masked", "normalized", "done"}
       /\ \A n \in 1..NCols(filtered_trace) : PlaneDips(n)

\* C14: if the classification mask, the brightness filter or the stability
\* filter leaves no ROI, every later stage runs on the empty-ROI matrix
\* without raising, and the run completes returning a dF/F matrix of shape
\* T x 0 and an empty retained-index list: a run that has failed either
\* failed before any filter was applied, or failed in the smoothing with a
\* ROI that had passed all three filters.
C14_EmptyPlaneCompletes ==
    /\ Emptied /\ pc = "done" =>
          /\ deltaF_F = Matrix(F_npy.T, <<>>)
          /\ final_indices = <<>>
    /\ pc = "raised" =>
          \/ /\ exc \in {"FileNotFoundError", "IndexError"}
             /\ fluorescence_trace \in {<<>>, F_npy}
             /\ filtered_trace = <<>>
          \/ /\ exc = "RuntimeError"
             /\ \E n \in 1..NCols(filtered_trace) : ~PlaneDips(n)

\* A run completed in which two ROIs reached the baseline estimation and
\* the stability filter left none.
C14_Witness ==
    /\ pc = "done"
    /\ NCols(filtered_trace) = 2
    /\ stable_rois_mask = <<FALSE, FALSE>>
    /\ deltaF_F = Matrix(PlaneFrames, <<>>)
    /\ final_indices = <<>>

\* C15: when the length of the classification mask differs from the ROI
\* count of the fluorescence matrix, the run fails with an error before
\* the brightness filter, the baseline estimation or the dF/F computation
\* is performed, and returns no dF/F matrix and no index list.
C15_MisalignedMaskFailsFast ==
    files[plane + 1] = Present /\ Len(iscell_npy) # NCols(F_npy) =>
       /\ pc \in {"start", "loaded", "raised"}
       /\ pc = "raised" => exc = "IndexError"
       /\ pc # "raised" => ENABLED Next
       /\ filtered_trace = <<>>
       /\ bright_rois_mask = <<>>
       /\ F0_baseline = <<>>
       /\ stable_rois_mask = <<>>
       /\ deltaF_F = <<>>
       /\ final_indices = <<>>

\* A run on two ROIs with a classification mask of one entry has failed.
C15_Witness ==
    /\ pc = "raised"
    /\ exc = "IndexError"
    /\ NCols(F_npy) = 2
    /\ Len(iscell_npy) = 1
    /\ deltaF_F = <<>>

\* C16: when the fluorescence file or the classification file of the plane
\* is absent, the run fails with FileNotFoundError: each file is loaded at
\* most once (the classification file not at all when the fluorescence
\* file is the absent one), no later stage runs and nothing is returned.
C16_MissingFileFailsFast ==
    files[plane + 1] # Present =>
       /\ pc \in {"start", "raised"}
       /\ pc = "start" => loads = <<>> /\ ENABLED Next
       /\ pc = "raised" =>
             /\ exc = "FileNotFoundError"
             /\ loads = IF files[plane + 1].F THEN <<"F", "iscell">> ELSE <<"F">>
       /\ filtered_trace = <<>>
       /\ bright_rois_mask = <<>>
       /\ F0_baseline = <<>>
       /\ stable_rois_mask = <<>>
       /\ deltaF_F = <<>>
       /\ final_indices = <<>>

\* A run on a folder that holds the fluorescence file and not the
\* classification file has failed.
C16_Witness ==
    /\ pc = "raised"
    /\ exc = "FileNotFoundError"
    /\ files[plane + 1] = [F |-> TRUE, iscell |-> FALSE]
    /\ loads = <<"F", "iscell">>
    /\ final_indices = <<>>

\* The driver is past plane k: it is at a later plane, or it has ended.
PastPlane(k) ==
    \/ driver \in {"finished", "raised"}
    \/ driver = "call" /\ pc = "raised"
    \/ plane > k

\* C17: for every plane whose fluorescence file exists, the batch driver
\* writes all three output files of that plane (the dF/F matrix, the
\* retained-index list and the metadata record) before it moves on.
C17_ThreeArtifactsPerPlane ==
    \A k \in 0..(n_planes - 1) :
       files[k + 1].F /\ PastPlane(k) =>
          \A name \in OutputNames : \E o \in out : o[1] = k /\ o[2] = name

\* The positions of a run after line 115, after line 119, after line 124
\* and at the return.
AfterMask == {"masked", "filtered", "baselined", "stable_masked", "normalized", "done"}

AfterFilter == AfterMask \ {"masked"}

AfterBaseline == AfterFilter \ {"filtered"}

\* compute_percentile_baseline with the parameters of a run.
BaselineOf(M, p) ==
    compute_percentile_baseline(M, p.fps, p.tau, p.percentile, p.instability_ratio,
                                p.min_window_s, p.window_tau_multiplier)

\* The stages applied one after another to the files of a plane.
RunAlone(F, iscell, p) ==
    LET cells    == SelectCols(F, iscell)
        bright   == filter_dim_rois(cells)
        baseline == BaselineOf(bright.filtered, p)
        stable   == StableMask(baseline.F0_baseline)
    IN  [raised        |-> baseline.raised,
         deltaF_F      |-> compute_dff(SelectCols(bright.filtered, stable),
                                       SelectCols(baseline.F0_baseline, stable)),
         final_indices |-> ReconcileIndices(iscell, bright.mask, stable)]

\* What the claim says of one run, given its frame.
PureRun(f) ==
    /\ f.pc \in AfterMask => f.fluorescence_trace = SelectCols(f.F_npy, f.iscell_npy)
    /\ f.pc \in AfterFilter =>
          f.filtered_trace = filter_dim_rois(f.fluorescence_trace).filtered
    /\ f.pc \in AfterBaseline =>
          /\ f.F0_baseline = BaselineOf(f.filtered_trace, f.params).F0_baseline
          /\ \A n \in 1..NCols(f.filtered_trace) :
                LET alone == BaselineOf(Matrix(f.filtered_trace.T,
                                               <<f.filtered_trace.cols[n]>>), f.params)
                IN  /\ ~alone.raised
                    /\ f.F0_baseline.cols[n] = alone.F0_baseline.cols[1]
    /\ f.pc = "done" =>
          LET alone == RunAlone(f.F_npy, f.iscell_npy, f.params)
          IN  /\ ~alone.raised
              /\ f.deltaF_F = alone.deltaF_F
              /\ f.final_indices = alone.final_indices
    /\ f.pc = "raised" =>
          \/ f.exc # "RuntimeError"
          \/ RunAlone(f.F_npy, f.iscell_npy, f.params).raised

OrderStatistic(a, k) ==
    CHOOSE v \in Range(a) :
       /\ Cardinality({i \in 1..Len(a) : RLess(a[i], v)}) < k
       /\ Cardinality({i \in 1..Len(a) : ~RLess(v, a[i])}) >= k

\* The q-th percentile by rank q / 100 * (n - 1) with linear interpolation
\* between the two order statistics around the rank.
InterpolatedPercentile(a, q) ==
    LET n     == Len(a)
        whole == (q * (n - 1)) \div 100
        part  == Q((q * (n - 1)) % 100, 100)
        below == OrderStatistic(a, whole + 1)
        above == OrderStatistic(a, IF whole + 2 > n THEN n ELSE whole + 2)
    IN  RAdd(below, RMul(part, RSub(above, below)))

\* a with the entries i and j exchanged.
Swap(a, i, j) ==
    [k \in 1..Len(a) |-> IF k = i THEN a[j] ELSE IF k = j THEN a[i] ELSE a[k]]

\* The clipped window of frame t1 (1-based) of column n of the call.
WindowOf(n, t1) ==
    PySlice(args.fluorescence_trace.cols[n], ret.window[t1][1], ret.window[t1][2])

\* C21: the local baseline at a frame is the percentile-th percentile of
\* the clipped window by rank percentile / 100 * (n - 1) with linear
\* interpolation between adjacent order statistics; it lies between the
\* minimum and the maximum of the window, and exchanging two values of the
\* window does not change it.
C21_InterpolatedOrderStatistic ==
    pc = "ret_compute_percentile_baseline" =>
       \A n \in 1..NCols(args.fluorescence_trace), t1 \in 1..args.fluorescence_trace.T :
          LET win == WindowOf(n, t1)
              b   == ret.local_baseline[n][t1]
          IN  /\ b = InterpolatedPercentile(win, args.percentile)
              /\ ~RLess(b, RMinOf(win))
              /\ ~RLess(RMaxOf(win), b)
              /\ \A i, j \in 1..Len(win) :
                    Percentile(Swap(win, i, j), args.percentile) = b

\* A window of three or more values that is not in ascending order, whose
\* percentile lies strictly between two of its values.
C21_Witness ==
    /\ pc = "ret_compute_percentile_baseline"
    /\ \E n \in 1..NCols(args.fluorescence_trace), t1 \in 1..args.fluorescence_trace.T :
          LET win == WindowOf(n, t1)
              b   == ret.local_baseline[n][t1]
          IN  /\ Len(win) >= 3
              /\ \E i \in 1..(Len(win) - 1) : RLess(win[i + 1], win[i])
              /\ RLess(RMinOf(win), b)
              /\ RLess(b, RMaxOf(win))
              /\ b \notin Range(win)

\* C22: for every ROI that passes the stability check, whatever value
\* window_frames has (0 and values above T included), the call returns and
\* the baseline column is the box moving average of size window_frames of
\* the ROI's local baseline; the stability check is made on the local
\* baseline, not on the smoothed column.
C22_SmoothedForEveryWindow ==
    pc = "ret_compute_percentile_baseline" =>
       \A n \in 1..NCols(args.fluorescence_trace) :
          /\ ret.unstable[n] = Unstable(ret.local_baseline[n], args.instability_ratio)
          /\ ~ret.unstable[n] =>
                /\ ~ret.raised
                /\ ret.F0_baseline.cols[n]
                      = uniform_filter1d(ret.local_baseline[n], ret.window_frames)

\* C23: of a matrix with at least one ROI and finite values, with
\* threshold_std >= 0 (here 0), filter_dim_rois retains at least one ROI:
\* every ROI of highest mean is retained.
C23_BrightestRetained ==
    pc = "ret_filter_dim_rois_float64" =>
       \A i \in 1..NCols(args.fluorescence_trace) :
          (\A j \in 1..NCols(args.fluorescence_trace) :
              ~FLess(ret.mean_fluo[i], ret.mean_fluo[j])) => ret.mask[i]

\* threshold_std squared is at least n.
SquareAtLeast(threshold_std, n) == RGeq(RMul(threshold_std, threshold_std), R(n))

\* C24: in exact arithmetic filter_dim_rois removes no ROI when
\* threshold_std * threshold_std >= N - 1; with the default threshold 2 it
\* removes none from a matrix of 5 or fewer ROIs.
C24_SmallPlaneKeepsAll ==
    pc = "ret_filter_dim_rois" =>
       LET N == NCols(args.fluorescence_trace)
       IN  /\ SquareAtLeast(args.threshold_std, N - 1) =>
                 /\ AllTrue(ret.mask)
                 /\ ret.filtered = args.fluorescence_trace
           /\ args.threshold_std = DefaultThresholdStd /\ N <= 5 => AllTrue(ret.mask)

\* The default threshold on five ROIs, one of which lies exactly two
\* standard deviations below the mean: it is retained.
C24_Witness ==
    /\ pc = "ret_filter_dim_rois"
    /\ args.threshold_std = DefaultThresholdStd
    /\ NCols(args.fluorescence_trace) = 5
    /\ AllTrue(ret.mask)
    /\ LET mean_fluo == [i \in 1..5 |-> Mean(args.fluorescence_trace.cols[i])]
           dev       == RSub(mean_fluo[1], Mean(mean_fluo))
       IN  /\ RLess(dev, Zero)
           /\ RMul(dev, dev) = RMul(R(4), Variance(mean_fluo))

\* C25: of a signed 16-bit stack with a negative minimum,
\* correct_negative_values_mp_safe returns the stack in which every pixel
\* is the original pixel plus the absolute value of the minimum, every
\* frame having been written exactly once whatever the number of chunks;
\* a stack without negative values is returned with the same values.
C25_ShiftedByMinimum ==
    pc = "ret_correct_negative_values" =>
       LET min_value == StackMin(args.frames)
       IN  IF min_value < 0
           THEN /\ \A f \in 1..Len(args.frames) : locals.writes[f] = 1
                /\ \A f \in 1..Len(args.frames), p \in 1..Len(args.frames[1]) :
                      ret[f][p] = args.frames[f][p] + Abs(min_value)
           ELSE ret = args.frames

\* The new fish folder of a plan row: base_dir / new_fish (line 169).
NewFishFolder(row) == args.base_dir \o <<row.new_fish>>

\* The rows of the plan, by number.
PlanRowNumbers == 1..Len(args.plan_df)

\* C27: execute_from_plan takes as the fish root of every row the new fish
\* folder base_dir / new_fish its destination lies under; the folder tree
\* is ensured under that folder, and the row is recorded in the manifest
\* of that folder, rows of different fish in different manifests.
C27_FishRootIsNewFishFolder ==
    /\ pc \in {"rows", "ret_execute_from_plan"} =>
          /\ locals.fish_roots = {NewFishFolder(args.plan_df[i]) : i \in PlanRowNumbers}
          /\ \A i \in PlanRowNumbers :
                describe_new_tree(NewFishFolder(args.plan_df[i])) \subseteq disk.dirs
    /\ pc = "ret_execute_from_plan" =>
          /\ DOMAIN disk.manifests = {NewFishFolder(args.plan_df[i]) : i \in PlanRowNumbers}
          /\ \A i \in PlanRowNumbers :
                \E k \in DOMAIN disk.manifests[NewFishFolder(args.plan_df[i])] :
                   disk.manifests[NewFishFolder(args.plan_df[i])][k].destination
                      = args.plan_df[i].destination

\* The manifest rows a second execution adds to the manifest of folder d.
AddedRows(d) == Len(ret[2].disk.manifests[d]) - Len(ret[1].disk.manifests[d])

C29_ReportedOnlyWhenSizesAgree ==
    pc \in {"rows", "ret_execute_from_plan"} =>
       \A i \in 1..Len(locals.statuses) :
          locals.statuses[i] \in {"COPIED", "SKIP"} =>
             \E f \in disk.files :
                /\ f.dir = args.plan_df[i].destination.dir
                /\ f.name = args.plan_df[i].destination.name
                /\ f.size = args.plan_df[i].source.size

\* C28: the loop of the driver over the planes 0 .. n_planes - 1 is not
\* ended by a plane whose fluorescence file is absent (the plane is
\* reported and skipped), the planes are visited in increasing order, and
\* the loop ends only after the last plane, whichever files exist.
C28_AbsentPlaneSkipped ==
    /\ plane \in 0..(n_planes - 1)
    /\ driver = "raised" => files[plane + 1].F
    /\ driver \in {"finished", "raised"} => plane = n_planes - 1

----------------------------------------------------------------------------
(* src/preprocessing/motion_segmentation_suite2p.py: process_fish, lines   *)
(* 137-186, with move_processed_files, lines 48-87, and the input files of *)
(* dFoF_extraction.py, lines 111-112 and 159-165.  Folders and names are   *)
(* written as in the migration script; the fish id is one piece of a name, *)
(* since both steps are run with the same id.  disk holds the files below  *)
(* the fish folder.                                                        *)

\* f"plane{i}".
PlaneName(i) == <<"plane0", "plane1", "plane2", "plane3", "plane4">>[i + 1]

\* Line 156 of the segmentation script and line 159 of dFoF_extraction.py.
Suite2PFolder(fish_folder) == fish_folder \o <<"03_analysis", "functional", "suite2P">>

\* Line 155.
MCorrectedFolder(fish_folder) ==
    fish_folder \o <<"02_reg", "00_preprocessing", "2p_functional", "02_motionCorrected">>

\* What suite2p.run_s2p leaves in save_path0/suite2p/plane0 (line 114);
\* reg_tif is the flag of the ops file for the registered chunks.
Suite2pArrays == {"F.npy", "Fneu.npy", "iscell.npy", "ops.npy", "spks.npy", "stat.npy"}

run_suite2p(on_disk, save_path0, reg_tif) ==
    LET plane0 == save_path0 \o <<"suite2p", "plane0">>
    IN  on_disk
          \cup {[dir |-> plane0, name |-> <<a>>] : a \in Suite2pArrays}
          \cup (IF reg_tif
                THEN {[dir |-> plane0 \o <<"reg_tif">>, name |-> <<"file000000", "chan0.tif">>]}
                ELSE {})

\* Lines 61-87: the files on disk afterwards.  With no reg_tif folder the
\* function returns at line 65 and leaves the arrays in suite2p/plane0.
move_processed_files(on_disk, plane_idx, analysis_s2p_folder, mcorrected_folder, fish_id) ==
    LET reg_folder  == analysis_s2p_folder \o <<"suite2p", "plane0", "reg_tif">>
        s2p_folder  == analysis_s2p_folder \o <<"suite2p", "plane0">>
        destination == analysis_s2p_folder \o <<PlaneName(plane_idx)>>
        out_tiff    == [dir |-> mcorrected_folder,
                        name |-> <<fish_id, PlaneName(plane_idx), "mcorrected.tif">>]
        seg_files   == {f \in on_disk : f.dir = s2p_folder}
        moved       == {[dir |-> destination,
                         name |-> <<fish_id, PlaneName(plane_idx)>> \o f.name] : f \in seg_files}
        temporary   == {f \in on_disk :
                          /\ Len(f.dir) > Len(analysis_s2p_folder)
                          /\ SubSeq(f.dir, 1, Len(analysis_s2p_folder) + 1)
                               = analysis_s2p_folder \o <<"suite2p">>}
    IN  IF ~(\E f \in on_disk : f.dir = reg_folder)
        THEN on_disk
        ELSE ((on_disk \ temporary) \cup {out_tiff}) \cup moved

\* Lines 164-165 of dFoF_extraction.py: the file whose existence decides
\* whether plane i is processed.
DriverInput(fish, fish_folder, i) ==
    [dir |-> Suite2PFolder(fish_folder) \o <<PlaneName(i)>>, name |-> <<fish, "F.npy">>]

\* Lines 111-112 of dFoF_extraction.py, called with the plane_path of line 164.
PipelineInputs(fish, fish_folder, i) ==
    {[dir |-> Suite2PFolder(fish_folder) \o <<PlaneName(i)>>, name |-> <<fish, "F.npy">>],
     [dir |-> Suite2PFolder(fish_folder) \o <<PlaneName(i)>>, name |-> <<fish, "iscell.npy">>]}

\* One iteration of the loop of line 163: lines 164-186.  The plane is
\* skipped when find_plane_file finds no TIFF for it.  The mirror of lines
\* 173-184 writes below storage_root, outside the fish folder.
SegPlane ==
    /\ pc = "process_fish"
    /\ locals.k < Len(args.selected_planes)
    /\ LET plane_idx   == args.selected_planes[locals.k + 1]
           fish_folder == args.fish_folder
           analysis    == Suite2PFolder(fish_folder)
       IN  /\ disk' =
                IF plane_idx \notin args.tiffs
                THEN disk
                ELSE move_processed_files(
                        run_suite2p(disk, analysis, args.reg_tif),
                        plane_idx, analysis, MCorrectedFolder(fish_folder),
                        fish_folder[Len(fish_folder)])
           /\ locals' = [k |-> locals.k + 1,
                         segmented |-> IF plane_idx \in args.tiffs
                                       THEN locals.segmented \cup {plane_idx}
                                       ELSE locals.segmented]
    /\ UNCHANGED <<pc, args, ret, pipelineVars>>

\* The end of the loop: process_fish returns.
SegReturn ==
    /\ pc = "process_fish"
    /\ locals.k = Len(args.selected_planes)
    /\ pc' = "returned"
    /\ ret' = locals.segmented
    /\ UNCHANGED <<args, locals, disk, pipelineVars>>

FishIds == {"L500_f01", "L500_f02"}

\* The lists of planes a run may be given: the planes of the script's
\* planes_to_process, in increasing order.
MaxSelectedPlanes == 3

PlaneLists ==
    {s \in UNION {[1..n -> 0..(n_planes - 1)] : n \in 1..MaxSelectedPlanes} :
        \A a, b \in DOMAIN s : a < b => s[a] < s[b]}

InitSeg ==
    /\ pc = "process_fish"
    /\ \E fish \in FishIds, planes \in PlaneLists, reg_tif \in BOOLEAN :
          \E tiffs \in SUBSET {planes[k] : k \in DOMAIN planes} :
             args = [fish_folder |-> <<"2p_data", fish>>, selected_planes |-> planes,
                     tiffs |-> tiffs, reg_tif |-> reg_tif]
    /\ ret = <<>>
    /\ locals = [k |-> 0, segmented |-> {}]
    /\ disk = {}
    /\ NoPipeline

NextSeg ==
    \/ SegPlane
    \/ SegReturn

SpecSeg == InitSeg /\ [][NextSeg]_vars

\* C30: the two steps agree on file names: after process_fish, for every
\* plane i it segmented with the registered chunks kept, the files the
\* dF/F step looks for as the inputs of plane i (the F file of line 165
\* and the two files of lines 111-112, for the same fish id) are on disk.
C30_SegmentedPlanesFound ==
    (pc = "returned" /\ args.reg_tif) =>
       \A i \in ret :
          LET fish == args.fish_folder[Len(args.fish_folder)]
          IN  /\ Exists(disk, DriverInput(fish, args.fish_folder, i))
              /\ \A f \in PipelineInputs(fish, args.fish_folder, i) : Exists(disk, f)
====
